---- MODULE Spec2Model ----
(***************************************************************************)
(* Model of the Matchbook trading system: the exchange client              *)
(* (matchbook_api.py), the pricing formulas, the phase procedures of the   *)
(* bot (bot.py) and the emergency hedge of the dashboard (app.py).         *)
(*                                                                         *)
(* Units.  Money is counted in pence and odds in hundredths, so that the   *)
(* decimal values of the program (stake 3.00, odds 6.40) are the integers  *)
(* 300 and 640.  A value that is not a whole number of pence (a greening   *)
(* stake before rounding) is a fraction <<numerator, denominator>> with a  *)
(* positive denominator; comparisons are made by cross multiplication and  *)
(* round(x, 2) is rounding of the fraction to whole pence.                 *)
(***************************************************************************)
EXTENDS Integers, Sequences, FiniteSets, TLC

VARIABLES
    \* MatchbookClient: credentials present, cached session token and account
    credentials, session_token, account,
    \* one MatchbookClient._request call in progress
    rq_pc, rq_method, rq_retry_on_auth, rq_attempt, rq_last_error,
    rq_result, rq_error,
    \* history of that call (what was sent, what came back)
    rq_sends, rq_resends, rq_logins, rq_401s, rq_placed, rq_last_status,
    \* the outcomes of the HTTP requests of that call, in order: <<"send", out>>
    \* for the request itself and <<"login", out>> for a re-login
    rq_trace,
    \* the exchange: the account's offers, in submission order (id = position)
    offers,
    \* the bot's cycle (main, run_phase1, run_phase2): program position and locals
    pc, balance, free_funds, stake, can_place_back, events,
    matched, gi, open_ids, scan,
    \* history: the submissions and cancels of the current cycle, the number of
    \* open offers when the cycle reached its open-offers check, and per offer
    \* the number of closing orders the exchange accepted for it
    log, open_at_check, closes,
    \* one emergency hedge invocation (app.py, panic_hedge): program position,
    \* locals, its submissions in order and the (success, message) it returns
    h_pc, h_matched, h_i, h_events, h_log, h_result,
    \* history: the exchange calls of that invocation, <<call, outcome>>, in order
    h_calls,
    \* history: a fetch of the current cycle failed with an exchange error
    fetch_failed,
    \* the exchange: the number of offers it books on the account
    book_limit,
    \* the control settings in the database (db.py): trading_enabled is
    \* "missing", "0" or "1"; force_phase1 likewise; event_id is the id of the
    \* event to focus on, NoEventId when the row is missing or empty
    trading_enabled, force_phase1_setting, event_id_setting,
    \* main (bot.py): program position, the account snapshot the client has
    \* cached, whether last_balance_refresh has been set, and the Force
    \* Phase 1 setting as the dispatch read it
    m_pc, m_account, m_refresh_set, m_force,
    \* history of the current cycle of main: the snapshots written, what the
    \* trading_enabled check read ("unread", "true", "false"), the exception
    \* the handlers of the loop caught, whether the account was refreshed;
    \* and whether a cycle has ever begun
    m_snapshots, m_enabled_read, m_error, m_refreshed, m_started,
    \* a call of a pure function: its arguments and what it returned
    fn_in, fn_out

clientVars == <<credentials, session_token, account>>
rqVars == <<rq_pc, rq_method, rq_retry_on_auth, rq_attempt, rq_last_error,
            rq_result, rq_error>>
rqHist == <<rq_sends, rq_resends, rq_logins, rq_401s, rq_placed, rq_last_status,
            rq_trace>>

exVars == <<offers, closes>>
cycVars == <<pc, balance, free_funds, stake, can_place_back, events,
             matched, gi, open_ids, scan, log, open_at_check, fetch_failed>>

hedgeVars == <<h_pc, h_matched, h_i, h_events, h_log, h_result, h_calls>>
fnVars == <<fn_in, fn_out>>
settingVars == <<trading_enabled, force_phase1_setting, event_id_setting>>
mainVars == <<m_pc, m_account, m_refresh_set, m_force, m_snapshots,
              m_enabled_read, m_error, m_refreshed, m_started>>

vars == <<clientVars, rqVars, rqHist, exVars, cycVars, hedgeVars, fnVars, settingVars, mainVars, book_limit>>

----------------------------------------------------------------------------
(* Configuration constants *)

MAX_RETRIES == 3

\* config.py, in pence
PHASE1_MIN == 2500
PHASE1_MAX == 20000
PHASE2_MIN == 20000
MIN_STAKE == 100
MAX_STAKE_PHASE1 == 500
MAX_STAKE_PHASE2 == 2000
\* config.py, in percent of the bankroll
STAKE_PCT_PHASE1 == 3
STAKE_PCT_PHASE2 == 2
TICKS_DISCOUNT == 2

\* None for a price (best_back = None): odds that are present are positive
NoPrice == 0

----------------------------------------------------------------------------
(* Bounds of the model *)

\* Number of offers the exchange books on the account; it answers a further
\* submission with a failure.
MaxOffers == 3

\* Number of steps of the grid of balances the pure functions are called with.
MaxGrid == 40

\* Largest number of ticks add_ticks_to_odds is called with.
MaxTicks == 5

----------------------------------------------------------------------------
(* Fractions of a penny *)

FracLT(f, g) == f[1] * g[2] < g[1] * f[2]
FracOfInt(n) == <<n, 1>>

\* round(x, 2) of a non-negative amount: to the nearest penny, a tie to even.
Round2(f) ==
    LET q == f[1] \div f[2]
        r == f[1] % f[2]
    IN  IF 2 * r < f[2] THEN q
        ELSE IF 2 * r > f[2] THEN q + 1
        ELSE IF q % 2 = 0 THEN q ELSE q + 1

----------------------------------------------------------------------------
(* Pricing and risk formulas (matchbook_api.py) *)

\* tick size, in hundredths, of the band the odds lie in
TickSize(odds) ==
    IF odds >= 200 /\ odds < 300 THEN 2
    ELSE IF odds >= 300 /\ odds < 400 THEN 5
    ELSE IF odds >= 400 /\ odds < 600 THEN 10
    ELSE IF odds >= 600 THEN 20
    ELSE 1

\* A variant of add_ticks_to_odds without the minimum of 1.01.
add_ticks_no_minimum(odds, ticks, side) ==
    IF side = "back" THEN odds + ticks * TickSize(odds)
    ELSE odds - ticks * TickSize(odds)

\* odds and result in hundredths: the sum of two-decimal odds and a whole
\* number of ticks has two decimals, and round(.., 2) returns it
add_ticks_to_odds(odds, ticks, side) ==
    IF odds < 101 THEN odds
    ELSE IF side = "back" THEN odds + ticks * TickSize(odds)
    ELSE odds - ticks * TickSize(odds)

\* lay_stake * (lay_odds - 1), for a stake given as a fraction of pence
lay_liability(lay_stake, lay_odds) ==
    <<lay_stake[1] * (lay_odds - 100), lay_stake[2] * 100>>

\* A variant of greening_up_lay_stake with the two odds exchanged.
greening_up_lay_stake_inverted(back_stake, back_odds, lay_odds) ==
    IF lay_odds <= 0 THEN FracOfInt(0)
    ELSE <<back_stake * lay_odds, back_odds>>

\* (back_stake * back_odds) / lay_odds, as a fraction of pence
greening_up_lay_stake(back_stake, back_odds, lay_odds) ==
    IF lay_odds <= 0 THEN FracOfInt(0)
    ELSE <<back_stake * back_odds, lay_odds>>

----------------------------------------------------------------------------
(* Phase selection and stake sizing (bot.py) *)

get_phase(b) ==
    IF PHASE1_MIN <= b /\ b < PHASE1_MAX THEN 1
    ELSE IF b >= PHASE2_MIN THEN 2
    ELSE 1

\* The stake without the floor of MIN_STAKE.
ClampStakeNoFloor(b, pct, cap) ==
    LET raw == <<b * pct, 100>>
    IN  Round2(IF FracLT(FracOfInt(cap), raw) THEN FracOfInt(cap) ELSE raw)

\* max(MIN_STAKE, min(balance * pct, cap)), rounded to pence
ClampStake(b, pct, cap) ==
    LET raw == <<b * pct, 100>>
        capped == IF FracLT(FracOfInt(cap), raw) THEN FracOfInt(cap) ELSE raw
        floored == IF FracLT(capped, FracOfInt(MIN_STAKE)) THEN FracOfInt(MIN_STAKE)
                   ELSE capped
    IN  Round2(floored)

get_stake(b, phase) ==
    IF phase = 1 THEN ClampStake(b, STAKE_PCT_PHASE1, MAX_STAKE_PHASE1)
    ELSE ClampStake(b, STAKE_PCT_PHASE2, MAX_STAKE_PHASE2)

\* The balance-based phase, whatever the Force Phase 1 setting.
EffectivePhaseIgnoringForce(b, force_phase1) == get_phase(b)

\* main: the phase whose procedure the cycle runs
EffectivePhase(b, force_phase1) == IF force_phase1 THEN 1 ELSE get_phase(b)

----------------------------------------------------------------------------
(* The exchange client: MatchbookClient._request and MatchbookClient.login *)

\* The public calls that go through _request.
Methods == {"get_events", "get_offers", "submit_offers", "cancel_offers"}

\* What one HTTP attempt can end in: a 2xx response, 401, 429, another status
\* >= 400, a timeout before the exchange processed the request, a timeout
\* after it processed the request (the response is lost), a connection error.
SendOutcomes == {"2xx", "401", "429", "500", "timeout_lost", "timeout_done", "conn"}

\* What the POST to the session endpoint can end in.
LoginOutcomes == {"200", "400", "500", "200_no_token", "timeout", "conn"}

\* The exchange acts on a request exactly when it answers 2xx or when the
\* response is lost after processing.
Processed(out) == out \in {"2xx", "timeout_done"}

\* A token / account snapshot different from the cached one.
FreshToken(t) == IF t = "tokA" THEN "tokB" ELSE "tokA"
FreshAccount(a) == IF a = "acctA" THEN "acctB" ELSE "acctA"

\* resp.status_code == 429: the attempt is spent and the loop continues.
IsRateLimitedOr5xx(out) == out \in {"429", "500"}

IsRateLimited(out) == out = "429"

\* resp.status_code >= 400, for the statuses the exchange answers with.
IsErrorStatus(out) == out \in {"401", "429", "500"}

\* Start of a public call: _request(..., retry_on_auth=True), attempt 0.
RqCall(m) ==
    /\ rq_pc \in {"idle", "done"}
    /\ rq_pc' = "send"
    /\ rq_method' = m
    /\ rq_retry_on_auth' = TRUE
    /\ rq_attempt' = 0
    /\ rq_last_error' = "None"
    /\ rq_result' = "none"
    /\ rq_error' = "none"
    /\ rq_sends' = 0
    /\ rq_resends' = 0
    /\ rq_logins' = 0
    /\ rq_401s' = 0
    /\ rq_placed' = 0
    /\ rq_last_status' = "none"
    /\ rq_trace' = <<>>
    /\ UNCHANGED <<clientVars, exVars, cycVars, hedgeVars, fnVars, settingVars, mainVars, book_limit>>

\* A loop that allows one attempt more than MAX_RETRIES.
RqNextAttemptOneMore(err) ==
    /\ rq_last_error' = err
    /\ rq_attempt' = rq_attempt + 1
    /\ IF rq_attempt + 1 >= MAX_RETRIES + 1
       THEN /\ rq_pc' = "done"
            /\ rq_result' = "MatchbookAPIError"
            /\ rq_error' = <<"failed_after_retries", err>>
       ELSE /\ rq_pc' = "send"
            /\ UNCHANGED <<rq_result, rq_error>>

\* A loop whose attempts are not counted.
RqNextAttemptNoCount(err) ==
    /\ rq_last_error' = err
    /\ rq_attempt' = rq_attempt
    /\ rq_pc' = "send"
    /\ UNCHANGED <<rq_result, rq_error>>

\* End of one loop iteration that did not return: the next attempt, or, when
\* range(MAX_RETRIES) is exhausted, the raise after the loop, which carries
\* last_error.
RqNextAttempt(err) ==
    /\ rq_last_error' = err
    /\ rq_attempt' = rq_attempt + 1
    /\ IF rq_attempt + 1 >= MAX_RETRIES
       THEN /\ rq_pc' = "done"
            /\ rq_result' = "MatchbookAPIError"
            /\ rq_error' = <<"failed_after_retries", err>>
       ELSE /\ rq_pc' = "send"
            /\ UNCHANGED <<rq_result, rq_error>>

\* One HTTP attempt of the request and the handling of its outcome.
RqSend(out) ==
    /\ rq_pc = "send"
    /\ rq_sends' = rq_sends + 1
    /\ rq_resends' = IF rq_retry_on_auth THEN rq_resends ELSE rq_resends + 1
    /\ rq_placed' = IF Processed(out) THEN rq_placed + 1 ELSE rq_placed
    /\ rq_401s' = IF out = "401" THEN rq_401s + 1 ELSE rq_401s
    /\ rq_last_status' = out
    /\ rq_trace' = Append(rq_trace, <<"send", out>>)
    /\ UNCHANGED <<clientVars, rq_method, rq_retry_on_auth, rq_logins>>
    /\ UNCHANGED <<exVars, cycVars, hedgeVars, fnVars, settingVars, mainVars, book_limit>>
    /\ CASE out = "401" /\ rq_retry_on_auth ->
                /\ rq_pc' = "login"
                /\ UNCHANGED <<rq_attempt, rq_last_error, rq_result, rq_error>>
         [] IsRateLimited(out) /\ ~(out = "401" /\ rq_retry_on_auth) ->
                RqNextAttempt(rq_last_error)
         [] IsErrorStatus(out) /\ ~IsRateLimited(out)
                /\ ~(out = "401" /\ rq_retry_on_auth) ->
                /\ rq_pc' = "done"
                /\ rq_result' = "MatchbookAPIError"
                /\ rq_error' = <<"api_error", out>>
                /\ UNCHANGED <<rq_attempt, rq_last_error>>
         [] out = "2xx" ->
                /\ rq_pc' = "done"
                /\ rq_result' = "ok"
                /\ UNCHANGED <<rq_attempt, rq_last_error, rq_error>>
         [] out \in {"timeout_lost", "timeout_done"} ->
                RqNextAttempt("Timeout")
         [] out = "conn" ->
                RqNextAttempt("ConnectionError")

\* self.login() called from the 401 branch of _request, inside its try block,
\* followed by the recursive call _request(..., retry_on_auth=False).
RqLogin(out) ==
    /\ rq_pc = "login"
    /\ rq_logins' = rq_logins + 1
    /\ rq_trace' = Append(rq_trace, <<"login", IF credentials THEN out ELSE "no_credentials">>)
    /\ UNCHANGED <<credentials, rq_method, rq_sends, rq_resends, rq_401s,
                   rq_placed, rq_last_status>>
    /\ UNCHANGED <<exVars, cycVars, hedgeVars, fnVars, settingVars, mainVars, book_limit>>
    /\ CASE ~credentials ->
                \* raised before any request is sent
                /\ rq_pc' = "done"
                /\ rq_result' = "MatchbookAuthError"
                /\ rq_error' = <<"login", "no_credentials">>
                /\ UNCHANGED <<session_token, account, rq_retry_on_auth,
                               rq_attempt, rq_last_error>>
         [] credentials /\ out \in {"400", "500"} ->
                /\ rq_pc' = "done"
                /\ rq_result' = "MatchbookAuthError"
                /\ rq_error' = <<"login", out>>
                /\ UNCHANGED <<session_token, account, rq_retry_on_auth,
                               rq_attempt, rq_last_error>>
         [] credentials /\ out = "200_no_token" ->
                \* the cache is overwritten before the token is checked
                /\ session_token' = "None"
                /\ account' = FreshAccount(account)
                /\ rq_pc' = "done"
                /\ rq_result' = "MatchbookAuthError"
                /\ rq_error' = <<"login", out>>
                /\ UNCHANGED <<rq_retry_on_auth, rq_attempt, rq_last_error>>
         [] credentials /\ out = "200" ->
                /\ session_token' = FreshToken(session_token)
                /\ account' = FreshAccount(account)
                /\ rq_pc' = "send"
                /\ rq_retry_on_auth' = FALSE
                /\ rq_attempt' = 0
                /\ rq_last_error' = "None"
                /\ UNCHANGED <<rq_result, rq_error>>
         [] credentials /\ out = "timeout" ->
                \* requests.exceptions.Timeout from login's POST is caught by
                \* the except clause of _request
                /\ RqNextAttempt("Timeout")
                /\ UNCHANGED <<session_token, account, rq_retry_on_auth>>
         [] credentials /\ out = "conn" ->
                /\ RqNextAttempt("ConnectionError")
                /\ UNCHANGED <<session_token, account, rq_retry_on_auth>>

\* What a direct call of login() ends in: the returned data ("ok"), the
\* MatchbookAuthError it raises, or the exception of requests.post, which
\* login() does not catch.
LoginResult(out) ==
    IF ~credentials THEN "MatchbookAuthError"
    ELSE IF out = "200" THEN "ok"
    ELSE IF out \in {"400", "500", "200_no_token"} THEN "MatchbookAuthError"
    ELSE IF out = "timeout" THEN "Timeout"
    ELSE "ConnectionError"

\* client.login() called directly (main at startup, get_api_client): out is
\* the outcome of the POST to the session endpoint, sent when the credentials
\* are present.
Login(out) ==
    /\ rq_pc \in {"idle", "done"}
    /\ rq_pc' = "done"
    /\ rq_method' = "login"
    /\ rq_retry_on_auth' = TRUE
    /\ rq_attempt' = 0
    /\ rq_last_error' = "None"
    /\ rq_result' = LoginResult(out)
    /\ rq_error' = IF LoginResult(out) = "ok" THEN "none"
                   ELSE <<"login", IF credentials THEN out ELSE "no_credentials">>
    /\ rq_sends' = 0
    /\ rq_resends' = 0
    /\ rq_logins' = 1
    /\ rq_401s' = 0
    /\ rq_placed' = 0
    /\ rq_last_status' = "none"
    /\ rq_trace' = IF credentials THEN << <<"login", out>> >> ELSE <<>>
    /\ IF credentials /\ out \in {"200", "200_no_token"}
       THEN \* the cache is overwritten before the token is checked
            /\ session_token' = IF out = "200" THEN FreshToken(session_token)
                                 ELSE "None"
            /\ account' = FreshAccount(account)
       ELSE UNCHANGED <<session_token, account>>
    /\ UNCHANGED <<credentials, exVars, cycVars, hedgeVars, fnVars, settingVars, mainVars, book_limit>>

----------------------------------------------------------------------------
(* Market data and the exchange *)

\* Account snapshots (balance, free funds) the client may hold when a cycle
\* reads it.
Accounts ==
    { [balance |-> 50,    free_funds |-> 50],
      [balance |-> 1000,  free_funds |-> 1000],
      [balance |-> 18000, free_funds |-> 1634],
      [balance |-> 18000, free_funds |-> 100],
      [balance |-> 25000, free_funds |-> 25000],
      [balance |-> 25000, free_funds |-> 1000] }

Price(side, odds) == [side |-> side, odds |-> odds]

\* The events GET /events may return: event 1 with market 1 and three runners.
\* Runner 1 is priced below the Phase 1 band, with a spread of one tick;
\* runners 2 and 3 are inside the band.
FeedNormal ==
    << [id |-> 1, markets |-> <<
        [id |-> 1, runners |-> <<
            [id |-> 1, prices |-> <<Price("back", 120), Price("lay", 121)>>],
            [id |-> 2, prices |-> <<Price("back", 400), Price("back", 390),
                                    Price("lay", 450), Price("lay", 460)>>],
            [id |-> 3, prices |-> <<Price("back", 200), Price("lay", 206)>>] >>] >>] >>

\* The same event when nobody offers a lay price on runner 2.
FeedNoLay ==
    << [id |-> 1, markets |-> <<
        [id |-> 1, runners |-> <<
            [id |-> 1, prices |-> <<Price("back", 120), Price("lay", 121)>>],
            [id |-> 2, prices |-> <<Price("back", 400)>>],
            [id |-> 3, prices |-> <<Price("back", 200), Price("lay", 206)>>] >>] >>] >>

\* The same event when runner 1 is priced 1.36 / 1.38, a spread of 0.02.
FeedTight ==
    << [id |-> 1, markets |-> <<
        [id |-> 1, runners |-> <<
            [id |-> 1, prices |-> <<Price("back", 136), Price("lay", 138)>>],
            [id |-> 2, prices |-> <<Price("back", 400), Price("back", 390),
                                    Price("lay", 450), Price("lay", 460)>>],
            [id |-> 3, prices |-> <<Price("back", 200), Price("lay", 206)>>] >>] >>] >>

\* Two open events: event 1 as above, and event 2 with market 2, whose runner
\* 4 is priced below the Phase 1 band.
FeedTwoEvents ==
    FeedNormal \o
    << [id |-> 2, markets |-> <<
        [id |-> 2, runners |-> <<
            [id |-> 4, prices |-> <<Price("back", 120), Price("lay", 121)>>] >>] >>] >>

\* What get_events ends in: a feed, an empty list of events, or an error.
FeedOutcomes == {"normal", "no_lay", "empty", "error"}
Feed(f) == IF f = "normal" THEN FeedNormal
           ELSE IF f = "no_lay" THEN FeedNoLay
           ELSE IF f = "tight" THEN FeedTight
           ELSE IF f = "two_events" THEN FeedTwoEvents
           ELSE <<>>

\* db.get_event_id() returns None: the row is missing or its value is empty.
NoEventId == 0

\* GET /events with ids=filter: the exchange returns the open events named in
\* ids, all the open events when ids is not given.
EventsFetched(f, filter) ==
    IF filter = NoEventId THEN Feed(f)
    ELSE SelectSeq(Feed(f), LAMBDA e : e.id = filter)

\* What get_events ends in for Phase 2.
Phase2FeedOutcomes == FeedOutcomes \cup {"tight"}

\* The event and market an offer on a runner belongs to (the exchange fills
\* event-id and market-id in; runner 4 is the runner of event 2, market 2).
EventOfRunner(rid) == IF rid = 4 THEN 2 ELSE 1
MarketOfRunner(rid) == IF rid = 4 THEN 2 ELSE 1

\* What submit_offers ends in for one offer: the status the response reports,
\* or MatchbookAPIError ("error").
SubmitOutcomes == {"open", "matched", "failed", "error"}

\* The answers the exchange can give to a submission with the book as it is.
CanAnswer(out) == out \in {"open", "matched", "delayed"} => Len(offers) < book_limit

\* The statuses with which the exchange holds a submitted offer.
Booked(out) == out \in {"open", "matched", "delayed"}

NewOffer(runner_id, side, odds, stk, out) ==
    [runner_id |-> runner_id, event_id |-> EventOfRunner(runner_id),
     market_id |-> MarketOfRunner(runner_id), side |-> side, odds |-> odds,
     stake |-> stk, status |-> out]

\* POST /offers with one offer, ending in out.
BookOffer(runner_id, side, odds, stk, out) ==
    IF Booked(out)
    THEN /\ offers' = Append(offers, NewOffer(runner_id, side, odds, stk, out))
         /\ closes' = Append(closes, 0)
    ELSE UNCHANGED <<offers, closes>>

\* GET /offers?status=...: the ids of the offers with a status in S, in order.
OfferIds(S) ==
    SelectSeq([i \in 1..Len(offers) |-> i], LAMBDA i : offers[i].status \in S)

\* The exchange matches an open offer (between two cycles of the bot).
ExMatch(i) ==
    /\ pc = "idle"
    /\ offers[i].status \in {"open", "delayed"}
    /\ offers' = [offers EXCEPT ![i].status = "matched"]
    /\ UNCHANGED <<closes, cycVars, clientVars, rqVars, rqHist, hedgeVars, fnVars, settingVars, mainVars, book_limit>>

----------------------------------------------------------------------------
(* Reading prices (bot.py) *)

SeqMax(s) == CHOOSE x \in {s[k] : k \in DOMAIN s} : \A y \in {s[k] : k \in DOMAIN s} : y <= x
SeqMin(s) == CHOOSE x \in {s[k] : k \in DOMAIN s} : \A y \in {s[k] : k \in DOMAIN s} : x <= y

\* get_best_prices: the highest back odds and the lowest lay odds of the
\* runner's price list, NoPrice for a side without a price.
get_best_prices(runner) ==
    LET priced == SelectSeq(runner.prices, LAMBDA p : p.odds # 0)
        backs == SelectSeq(priced, LAMBDA p : p.side = "back")
        lays == SelectSeq(priced, LAMBDA p : p.side = "lay")
    IN  [best_back |-> IF backs = <<>> THEN NoPrice
                       ELSE SeqMax([k \in DOMAIN backs |-> backs[k].odds]),
         best_lay |-> IF lays = <<>> THEN NoPrice
                      ELSE SeqMin([k \in DOMAIN lays |-> lays[k].odds])]

RECURSIVE Concat(_)
Concat(ss) == IF ss = <<>> THEN <<>> ELSE Head(ss) \o Concat(Tail(ss))

\* The runners of the fetched events in the order the nested loops visit
\* them: event, then market, then runner.
ScanOrder(evs) ==
    Concat([e \in DOMAIN evs |->
        Concat([m \in DOMAIN evs[e].markets |->
            [r \in DOMAIN evs[e].markets[m].runners |->
                [event_id |-> evs[e].id,
                 market_id |-> evs[e].markets[m].id,
                 runner |-> evs[e].markets[m].runners[r]]]])])

\* The best lay price of the runner of a matched offer in the fetched events
\* (ids are unique in a feed), NoPrice when the runner is not there.
BestLayFor(evs, offer) ==
    LET so == ScanOrder(evs)
        ks == {k \in DOMAIN so : /\ so[k].event_id = offer.event_id
                                  /\ so[k].market_id = offer.market_id
                                  /\ so[k].runner.id = offer.runner_id}
    IN  IF ks = {} THEN NoPrice
        ELSE get_best_prices(so[CHOOSE k \in ks : \A j \in ks : j <= k].runner).best_lay

----------------------------------------------------------------------------
(* Phase 1: directional scalping (bot.py, run_phase1) *)

\* A runner Phase 1 may back: both sides priced, best back in [1.5, 10.0].
P1Qualifies(runner) ==
    LET bp == get_best_prices(runner)
    IN  /\ bp.best_back # NoPrice
        /\ bp.best_lay # NoPrice
        /\ ~(bp.best_back < 150 \/ bp.best_back > 1000)

\* A variant of P1BackOdds that joins the best back price.
P1BackOddsAtBest(best_back) == best_back

\* The discounted price of a new Back.
P1BackOdds(best_back) ==
    LET o == add_ticks_to_odds(best_back, TICKS_DISCOUNT, "back")
    IN  IF o <= best_back THEN add_ticks_to_odds(best_back, 1, "back") ELSE o

\* A variant of BackPlaced that takes only a matched Back as placed.
BackPlacedOnlyMatched(status) == status \in {"matched"}

\* The statuses on which run_phase1 takes its Back as placed and stops.
BackPlaced(status) == status \in {"open", "matched", "delayed"}

\* The first position at or after k in the scan order that holds a qualifying
\* runner; one past the end when there is none.
NextQualifying(evs, k) ==
    LET so == ScanOrder(evs)
        ks == {j \in DOMAIN so : j >= k /\ P1Qualifies(so[j].runner)}
    IN  IF ks = {} THEN Len(so) + 1
        ELSE CHOOSE j \in ks : \A i \in ks : j <= i

\* run_phase1 returns.
P1End == pc' = "p1_return"

\* main reads the account and dispatches the cycle to run_phase1, which
\* refuses to trade when the balance is below MIN_STAKE and otherwise sizes
\* the stake and reads the free funds.
P1Start(a, force_phase1) ==
    /\ pc = "idle"
    /\ EffectivePhase(a.balance, force_phase1) = 1
    /\ balance' = a.balance
    /\ log' = <<>>
    /\ events' = <<>>
    /\ matched' = <<>>
    /\ gi' = 0
    /\ open_ids' = <<>>
    /\ scan' = 0
    /\ open_at_check' = 0
    /\ fetch_failed' = FALSE
    /\ IF a.balance < MIN_STAKE
       THEN /\ P1End
            /\ stake' = 0
            /\ free_funds' = 0
            /\ can_place_back' = FALSE
       ELSE /\ pc' = "p1_events"
            /\ stake' = get_stake(a.balance, 1)
            /\ free_funds' = a.free_funds
            /\ can_place_back' = (a.free_funds >= get_stake(a.balance, 1))
    /\ UNCHANGED <<exVars, clientVars, rqVars, rqHist, hedgeVars, fnVars, settingVars, mainVars, book_limit>>

\* client.get_events(...): an error or an empty list ends the cycle.
P1FetchEvents(f) ==
    /\ fetch_failed' = (f = "error")
    /\ pc = "p1_events"
    /\ IF f = "error" \/ EventsFetched(f, event_id_setting) = <<>>
       THEN P1End /\ UNCHANGED events
       ELSE pc' = "p1_matched" /\ events' = EventsFetched(f, event_id_setting)
    /\ UNCHANGED <<balance, free_funds, stake, can_place_back, matched,
                   gi, open_ids, scan, log, open_at_check>>
    /\ UNCHANGED <<exVars, clientVars, rqVars, rqHist, hedgeVars, fnVars, settingVars, mainVars, book_limit>>

\* client.get_offers(status="matched"): an error ends the cycle.
P1FetchMatched(ok) ==
    /\ fetch_failed' = (~ok)
    /\ pc = "p1_matched"
    /\ IF ok
       THEN pc' = "p1_green" /\ matched' = OfferIds({"matched"}) /\ gi' = 1
       ELSE P1End /\ UNCHANGED <<matched, gi>>
    /\ UNCHANGED <<balance, free_funds, stake, can_place_back, events,
                   open_ids, scan, log, open_at_check>>
    /\ UNCHANGED <<exVars, clientVars, rqVars, rqHist, hedgeVars, fnVars, settingVars, mainVars, book_limit>>

\* The greening Lay computed for a matched Back: its odds, its stake before
\* rounding, and whether run_phase1 submits it.
Greening(evs, offer, funds) ==
    LET best_lay == BestLayFor(evs, offer)
        lay_stake == greening_up_lay_stake(offer.stake, offer.odds, best_lay)
        liability == lay_liability(lay_stake, best_lay)
    IN  [odds |-> best_lay,
         lay_stake |-> lay_stake,
         submit |-> /\ offer.side = "back"
                    /\ ~(best_lay = NoPrice \/ best_lay <= 0)
                    /\ ~FracLT(lay_stake, <<50, 1>>)
                    /\ ~FracLT(FracOfInt(funds), liability)]

\* A variant of AfterGreening in which an exchange error leaves the loop.
AfterGreeningAbortOnError(i, out) ==
    IF out = "error" THEN Len(matched) + 1 ELSE i + 1

\* The loop over the matched offers goes on with the next offer whatever the
\* submission of the greening Lay ended in: an exchange error is caught and
\* logged inside the iteration, a failed status is logged.
AfterGreening(i, out) == i + 1

\* One iteration of the loop over the matched offers: the greening Lay of the
\* offer is submitted, or the offer is skipped.
P1Green(out) ==
    /\ UNCHANGED fetch_failed
    /\ pc = "p1_green"
    /\ CanAnswer(out)
    /\ IF gi > Len(matched)
       THEN /\ pc' = "p1_open"
            /\ UNCHANGED <<gi, log, exVars>>
       ELSE LET id == matched[gi]
                g == Greening(events, offers[id], free_funds)
            IN  /\ gi' = IF g.submit THEN AfterGreening(gi, out) ELSE gi + 1
                /\ pc' = pc
                /\ IF g.submit
                   THEN /\ log' = Append(log,
                               [kind |-> "green", ref |-> id,
                                runner_id |-> offers[id].runner_id,
                                side |-> "lay", odds |-> g.odds,
                                stake |-> Round2(g.lay_stake), status |-> out])
                        /\ IF Booked(out)
                           THEN /\ offers' = Append(offers,
                                       NewOffer(offers[id].runner_id, "lay", g.odds,
                                                Round2(g.lay_stake), out))
                                /\ closes' = Append([closes EXCEPT ![id] = @ + 1], 0)
                           ELSE UNCHANGED <<offers, closes>>
                   ELSE UNCHANGED <<log, exVars>>
    /\ UNCHANGED <<balance, free_funds, stake, can_place_back, events,
                   matched, open_ids, scan, open_at_check>>
    /\ UNCHANGED <<clientVars, rqVars, rqHist, hedgeVars, fnVars, settingVars, mainVars, book_limit>>

\* The guard of new Back orders: enough free funds for the stake, and fewer
\* than two open offers; an error of get_offers(status="open") is passed over.
P1OpenCheck(ok) ==
    /\ fetch_failed' = (can_place_back /\ ~ok)
    /\ pc = "p1_open"
    /\ open_at_check' = Len(OfferIds({"open"}))
    /\ IF ~can_place_back
       THEN P1End /\ UNCHANGED scan
       ELSE IF ok /\ Len(OfferIds({"open"})) >= 2
       THEN P1End /\ UNCHANGED scan
       ELSE pc' = "p1_scan" /\ scan' = NextQualifying(events, 1)
    /\ UNCHANGED <<balance, free_funds, stake, can_place_back, events,
                   matched, gi, open_ids, log>>
    /\ UNCHANGED <<exVars, clientVars, rqVars, rqHist, hedgeVars, fnVars, settingVars, mainVars, book_limit>>

\* The scan for a runner to back: the Back for the next qualifying runner is
\* submitted; the scan stops when the response reports it placed.
P1Scan(out) ==
    /\ UNCHANGED fetch_failed
    /\ pc = "p1_scan"
    /\ CanAnswer(out)
    /\ IF scan > Len(ScanOrder(events))
       THEN P1End /\ UNCHANGED <<scan, log, exVars>>
       ELSE LET r == ScanOrder(events)[scan].runner
                back_odds == P1BackOdds(get_best_prices(r).best_back)
            IN  /\ log' = Append(log,
                        [kind |-> "back", ref |-> 0, runner_id |-> r.id,
                         side |-> "back", odds |-> back_odds, stake |-> stake,
                         status |-> out])
                /\ BookOffer(r.id, "back", back_odds, stake, out)
                /\ IF out # "error" /\ BackPlaced(out)
                   THEN P1End /\ UNCHANGED scan
                   ELSE pc' = pc /\ scan' = NextQualifying(events, scan + 1)
    /\ UNCHANGED <<balance, free_funds, stake, can_place_back, events,
                   matched, gi, open_ids, open_at_check>>
    /\ UNCHANGED <<clientVars, rqVars, rqHist, hedgeVars, fnVars, settingVars, mainVars, book_limit>>

----------------------------------------------------------------------------
(* Phase 2: market making (bot.py, run_phase2) *)

\* run_phase2 returns.
P2End == pc' = "p2_return"

\* main reads the account and dispatches the cycle to run_phase2, which
\* refuses to trade below PHASE2_MIN and otherwise sizes the stake and reads
\* the free funds.
P2Start(a, force_phase1) ==
    /\ pc = "idle"
    /\ EffectivePhase(a.balance, force_phase1) = 2
    /\ balance' = a.balance
    /\ fetch_failed' = FALSE
    /\ IF a.balance < PHASE2_MIN
       THEN /\ P2End
            /\ stake' = 0
            /\ free_funds' = 0
       ELSE /\ pc' = "p2_events"
            /\ stake' = get_stake(a.balance, 2)
            /\ free_funds' = a.free_funds
    /\ UNCHANGED <<can_place_back, events, matched, gi, open_ids, scan, log,
                   open_at_check>>
    /\ UNCHANGED <<exVars, clientVars, rqVars, rqHist, hedgeVars, fnVars, settingVars, mainVars, book_limit>>

\* client.get_events(...): an error or an empty list ends the cycle.
P2FetchEvents(f) ==
    /\ fetch_failed' = (f = "error")
    /\ pc = "p2_events"
    /\ IF f = "error" \/ EventsFetched(f, event_id_setting) = <<>>
       THEN P2End /\ UNCHANGED events
       ELSE pc' = "p2_offers" /\ events' = EventsFetched(f, event_id_setting)
    /\ UNCHANGED <<balance, free_funds, stake, can_place_back, matched,
                   gi, open_ids, scan, log, open_at_check>>
    /\ UNCHANGED <<exVars, clientVars, rqVars, rqHist, hedgeVars, fnVars, settingVars, mainVars, book_limit>>

\* "If we have a matched offer, cancel any open counterpart."
P2MustCancel(matched_offer_ids, open_offer_ids) ==
    matched_offer_ids # <<>> /\ open_offer_ids # <<>>

\* A variant of P2CancelIds that names only the first open offer.
P2CancelIdsFirstOnly(open_offer_ids) == <<Head(open_offer_ids)>>

\* The offers named in the cancel request.
P2CancelIds(open_offer_ids) == open_offer_ids

\* A variant of P2MayQuote that looks at the matched offers only.
P2MayQuoteIgnoringOpen(matched_offer_ids, open_offer_ids) ==
    ~(Len(matched_offer_ids) >= 2)

\* "Don't place new two-sided quotes if we already have open offers."
P2MayQuote(matched_offer_ids, open_offer_ids) ==
    ~(open_offer_ids # <<>> \/ Len(matched_offer_ids) >= 2)

\* client.get_offers(status="open,matched"): an error ends the cycle; without
\* a cancel to make, the guard of new quotes follows at once.
P2FetchOffers(ok) ==
    /\ fetch_failed' = (~ok)
    /\ pc = "p2_offers"
    /\ IF ~ok
       THEN P2End /\ UNCHANGED <<matched, open_ids>>
       ELSE /\ matched' = OfferIds({"matched"})
            /\ open_ids' = OfferIds({"open"})
            /\ pc' = IF P2MustCancel(OfferIds({"matched"}), OfferIds({"open"}))
                        THEN "p2_cancel"
                     ELSE IF P2MayQuote(OfferIds({"matched"}), OfferIds({"open"}))
                        THEN "p2_scan"
                     ELSE "p2_return"
    /\ UNCHANGED <<balance, free_funds, stake, can_place_back, events, gi,
                   scan, log, open_at_check>>
    /\ UNCHANGED <<exVars, clientVars, rqVars, rqHist, hedgeVars, fnVars, settingVars, mainVars, book_limit>>

\* client.cancel_offers(offer_ids=open_offer_ids): DELETE /offers.  On
\* success the exchange cancels the named offers that are still open; an
\* error is logged.  The guard of new quotes follows.
P2Cancel(ok) ==
    /\ UNCHANGED fetch_failed
    /\ pc = "p2_cancel"
    /\ log' = Append(log, [kind |-> "cancel", ids |-> P2CancelIds(open_ids),
                            status |-> IF ok THEN "ok" ELSE "error"])
    /\ offers' = IF ok
                 THEN [i \in DOMAIN offers |->
                        IF /\ \E k \in DOMAIN P2CancelIds(open_ids) :
                                  P2CancelIds(open_ids)[k] = i
                           /\ offers[i].status = "open"
                        THEN [offers[i] EXCEPT !.status = "cancelled"]
                        ELSE offers[i]]
                 ELSE offers
    /\ pc' = IF P2MayQuote(matched, open_ids) THEN "p2_scan" ELSE "p2_return"
    /\ UNCHANGED <<balance, free_funds, stake, can_place_back, events, matched,
                   gi, open_ids, scan, open_at_check, closes>>
    /\ UNCHANGED <<clientVars, rqVars, rqHist, hedgeVars, fnVars, settingVars, mainVars, book_limit>>

\* The best back prices below 3.00, in hundredths, for which the float
\* best_lay - best_back of a lay price 0.02 higher is below the float 0.02
\* (1.38 - 1.36 is 0.019999999999999796).  From 3.00 up the ladder has no two
\* prices 0.02 apart, and the feeds have none.
SpreadRoundsBelow == {136, 137, 161, 162, 186, 187, 199, 224, 249, 274, 299}

\* spread = best_lay - best_back; spread < 0.02, in floats.
SpreadBelowMin(best_back, best_lay) ==
    \/ best_lay - best_back < 2
    \/ best_lay - best_back = 2 /\ best_back \in SpreadRoundsBelow

\* A runner Phase 2 may quote: both sides priced, the spread not below 0.02,
\* best back at least 1.2, best lay at most 15.0, and the lay liability of
\* the stake within the free funds.
P2Qualifies(runner, stk, funds) ==
    LET bp == get_best_prices(runner)
    IN  /\ bp.best_back # NoPrice
        /\ bp.best_lay # NoPrice
        /\ ~SpreadBelowMin(bp.best_back, bp.best_lay)
        /\ ~(bp.best_back < 120 \/ bp.best_lay > 1500)
        /\ ~FracLT(FracOfInt(funds), lay_liability(FracOfInt(stk), bp.best_lay))

\* The position in the scan order of the first runner Phase 2 may quote, 0
\* when there is none.
P2Target(evs, stk, funds) ==
    LET so == ScanOrder(evs)
        ks == {j \in DOMAIN so : P2Qualifies(so[j].runner, stk, funds)}
    IN  IF ks = {} THEN 0
        ELSE CHOOSE j \in ks : \A i \in ks : j <= i

\* What submit_offers ends in for a two-sided quote: the statuses the response
\* reports for the Back and the Lay, or MatchbookAPIError.
QuoteOutcomes ==
    ({"open", "matched", "delayed", "failed"} \X {"open", "matched", "delayed", "failed"})
        \cup {<<"error", "error">>}

BookedOf(ss) == SelectSeq(ss, Booked)

\* The scan for a runner to quote: the Back at best back and the Lay at best
\* lay of the first qualifying runner are submitted in one request, and
\* run_phase2 returns.
P2Scan(out) ==
    /\ UNCHANGED fetch_failed
    /\ pc = "p2_scan"
    /\ LET t == P2Target(events, stake, free_funds)
       IN  IF t = 0
           THEN /\ out = <<"failed", "failed">>
                /\ UNCHANGED <<scan, log, exVars>>
           ELSE LET r == ScanOrder(events)[t].runner
                    bp == get_best_prices(r)
                    back == NewOffer(r.id, "back", bp.best_back, stake, out[1])
                    lay == NewOffer(r.id, "lay", bp.best_lay, stake, out[2])
                    new == BookedOf(<<out[1], out[2]>>)
                IN  /\ Len(offers) + Len(new) <= book_limit
                    /\ scan' = t
                    /\ log' = Append(log,
                            [kind |-> "quote", runner_id |-> r.id,
                             back_odds |-> bp.best_back, lay_odds |-> bp.best_lay,
                             stake |-> stake, first_id |-> Len(offers) + 1,
                             status |-> out])
                    /\ offers' = offers
                            \o (IF Booked(out[1]) THEN <<back>> ELSE <<>>)
                            \o (IF Booked(out[2]) THEN <<lay>> ELSE <<>>)
                    /\ closes' = closes \o [k \in 1..Len(new) |-> 0]
    /\ P2End
    /\ UNCHANGED <<balance, free_funds, stake, can_place_back, events, matched,
                   gi, open_ids, open_at_check>>
    /\ UNCHANGED <<clientVars, rqVars, rqHist, hedgeVars, fnVars, settingVars, mainVars, book_limit>>

\* The cycle is over: the locals are gone and main sleeps until the next cycle.
Return ==
    /\ pc \in {"p1_return", "p2_return"}
    /\ pc' = "idle"
    /\ balance' = 0
    /\ free_funds' = 0
    /\ stake' = 0
    /\ can_place_back' = FALSE
    /\ events' = <<>>
    /\ matched' = <<>>
    /\ gi' = 0
    /\ open_ids' = <<>>
    /\ scan' = 0
    /\ log' = <<>>
    /\ open_at_check' = 0
    /\ fetch_failed' = FALSE
    /\ UNCHANGED <<exVars, clientVars, rqVars, rqHist, hedgeVars, fnVars, settingVars, mainVars, book_limit>>

----------------------------------------------------------------------------
(* The emergency hedge (app.py, panic_hedge) *)

\* GET /events with price_depth=1: the exchange returns, for each runner, the
\* best price of each side only.
BestPricesOnly(evs) ==
    [e \in DOMAIN evs |->
        [evs[e] EXCEPT !.markets =
            [m \in DOMAIN evs[e].markets |->
                [evs[e].markets[m] EXCEPT !.runners =
                    [r \in DOMAIN evs[e].markets[m].runners |->
                        LET run == evs[e].markets[m].runners[r]
                            bp == get_best_prices(run)
                        IN  [run EXCEPT !.prices =
                                (IF bp.best_back = NoPrice THEN <<>>
                                 ELSE <<Price("back", bp.best_back)>>)
                                \o (IF bp.best_lay = NoPrice THEN <<>>
                                    ELSE <<Price("lay", bp.best_lay)>>)]]]]]]

\* The odds of the first price of the given side in the runner's price
\* list (the inner loop breaks at it), NoPrice without one.
FirstPrice(runner, side) ==
    LET ps == SelectSeq(runner.prices, LAMBDA p : p.side = side)
    IN  IF ps = <<>> THEN NoPrice ELSE ps[1].odds

\* The price panic_hedge closes a matched offer at: for a Back the first lay
\* price of its runner in its market of its event, for a Lay the first back
\* price of its runner in any market of its event.
HedgeOpposing(evs, offer) ==
    LET so == ScanOrder(evs)
        ks == {k \in DOMAIN so :
                 /\ so[k].event_id = offer.event_id
                 /\ offer.side = "back" => so[k].market_id = offer.market_id
                 /\ so[k].runner.id = offer.runner_id}
        side == IF offer.side = "back" THEN "lay" ELSE "back"
    IN  IF ks = {} THEN NoPrice
        ELSE FirstPrice(so[CHOOSE k \in ks : \A j \in ks : j <= k].runner, side)

\* The closing order of a matched offer: whether one is submitted, and its
\* side, odds and stake.
HedgeOrder(evs, offer) ==
    LET opp == HedgeOpposing(evs, offer)
    IN  [submit |-> offer.side \in {"back", "lay"} /\ opp # NoPrice,
         side |-> IF offer.side = "back" THEN "lay" ELSE "back",
         odds |-> opp,
         stake |-> Round2(greening_up_lay_stake(offer.stake, offer.odds, opp))]

\* The matched offers as any status would be taken for matched.
HedgeMatchedWithOpen == OfferIds({"matched", "open"})

\* matched = [o for o in offers if o.get("status") == "matched"]
HedgeMatched == OfferIds({"matched"})

HedgeDone(success, message) ==
    /\ h_pc' = "done"
    /\ h_result' = <<success, message>>

\* panic_hedge is invoked: get_api_client() logs a new client in.
HedgeStart(ok) ==
    /\ h_pc = "idle"
    /\ h_calls' = << <<"login", IF ok THEN "ok" ELSE "error">> >>
    /\ IF ok
       THEN h_pc' = "fetch_offers" /\ UNCHANGED h_result
       ELSE HedgeDone(FALSE, "Not logged in. Check .env credentials.")
    /\ UNCHANGED <<h_matched, h_i, h_events, h_log>>
    /\ UNCHANGED <<exVars, cycVars, clientVars, rqVars, rqHist, fnVars, settingVars, mainVars, book_limit>>

\* client.get_offers(status="matched"), and the return when nothing is matched.
HedgeFetchOffers(ok) ==
    /\ h_pc = "fetch_offers"
    /\ h_calls' = Append(h_calls, <<"get_offers", IF ok THEN "ok" ELSE "error">>)
    /\ IF ~ok
       THEN HedgeDone(FALSE, "error") /\ UNCHANGED h_matched
       ELSE /\ h_matched' = HedgeMatched
            /\ IF HedgeMatched = <<>>
               THEN HedgeDone(TRUE, "No matched positions to hedge.")
               ELSE h_pc' = "fetch_events" /\ UNCHANGED h_result
    /\ UNCHANGED <<h_i, h_events, h_log>>
    /\ UNCHANGED <<exVars, cycVars, clientVars, rqVars, rqHist, fnVars, settingVars, mainVars, book_limit>>

\* client.get_events(include_prices=True, price_depth=1, ...)
HedgeFetchEvents(f) ==
    /\ h_pc = "fetch_events"
    /\ h_calls' = Append(h_calls, <<"get_events", f>>)
    /\ IF f = "error"
       THEN HedgeDone(FALSE, "error") /\ UNCHANGED <<h_events, h_i>>
       ELSE /\ h_events' = BestPricesOnly(Feed(f))
            /\ h_i' = 1
            /\ h_pc' = "loop"
            /\ UNCHANGED h_result
    /\ UNCHANGED <<h_matched, h_log>>
    /\ UNCHANGED <<exVars, cycVars, clientVars, rqVars, rqHist, fnVars, settingVars, mainVars, book_limit>>

\* One iteration of the loop over the matched offers, or the return after
\* the last one.  A MatchbookAPIError of submit_offers leaves the loop for
\* the except clause of panic_hedge.
HedgeStep(out) ==
    /\ h_pc = "loop"
    /\ CanAnswer(out)
    /\ IF h_i > Len(h_matched)
       THEN /\ HedgeDone(TRUE, "Panic hedge orders submitted.")
            /\ UNCHANGED <<h_i, h_log, h_calls, exVars>>
       ELSE LET id == h_matched[h_i]
                o == HedgeOrder(h_events, offers[id])
            IN  IF ~o.submit
                THEN /\ h_i' = h_i + 1
                     /\ UNCHANGED <<h_pc, h_result, h_log, h_calls, exVars>>
                ELSE /\ h_log' = Append(h_log,
                            [ref |-> id, runner_id |-> offers[id].runner_id,
                             side |-> o.side, odds |-> o.odds,
                             stake |-> o.stake, status |-> out])
                     /\ h_calls' = Append(h_calls, <<"submit_offers", out>>)
                     /\ IF Booked(out)
                        THEN /\ offers' = Append(offers,
                                    NewOffer(offers[id].runner_id, o.side, o.odds,
                                             o.stake, out))
                             /\ closes' = Append([closes EXCEPT ![id] = @ + 1], 0)
                        ELSE UNCHANGED <<offers, closes>>
                     /\ IF out = "error"
                        THEN HedgeDone(FALSE, "error") /\ UNCHANGED h_i
                        ELSE h_i' = h_i + 1 /\ UNCHANGED <<h_pc, h_result>>
    /\ UNCHANGED <<h_matched, h_events>>
    /\ UNCHANGED <<cycVars, clientVars, rqVars, rqHist, fnVars, settingVars, mainVars, book_limit>>

\* The caller has the result; the locals are gone.
HedgeReturn ==
    /\ h_pc = "done"
    /\ h_pc' = "idle"
    /\ h_matched' = <<>>
    /\ h_i' = 0
    /\ h_events' = <<>>
    /\ h_log' = <<>>
    /\ h_result' = <<FALSE, "none">>
    /\ h_calls' = <<>>
    /\ UNCHANGED <<exVars, cycVars, clientVars, rqVars, rqHist, fnVars, settingVars, mainVars, book_limit>>

\* Unsettled offers an account may hold when the hedge is invoked: a matched
\* Back on runner 2, a matched Lay on runner 3, an open Back on runner 3.
HedgeBookOffers ==
    { NewOffer(2, "back", 420, 500, "matched"),
      NewOffer(3, "lay", 206, 500, "matched"),
      NewOffer(3, "back", 204, 100, "open") }

HedgeBooks ==
    {<<>>} \cup {<<a>> : a \in HedgeBookOffers}
           \cup {<<a, b>> : a \in HedgeBookOffers, b \in HedgeBookOffers}

-----------------------------------------------------------------------------
(* The main loop (bot.py, main) and the control settings (db.py) *)

\* db.is_trading_enabled(): the row exists and holds "1".
is_trading_enabled(v) == v = "1"

\* db.is_force_phase1(): the row is missing or holds "1".
is_force_phase1(v) == v = "missing" \/ v = "1"

\* A variant of InitDbSetting that inserts "1".
InitDbSettingEnabled(v) == IF v = "missing" THEN "1" ELSE v

\* init_db: INSERT OR IGNORE of ("trading_enabled", "0").
InitDbSetting(v) == IF v = "missing" THEN "0" ELSE v

\* The value set_trading_enabled and set_force_phase1 store.
SettingOf(b) == IF b THEN "1" ELSE "0"

\* The accounts a login response carries while main runs.
MainAccounts ==
    { [balance |-> 1000,  free_funds |-> 1000],
      [balance |-> 25000, free_funds |-> 25000] }

\* The exceptions the handlers of the loop catch.
CycleErrors == {"MatchbookAPIError", "Exception"}

\* A variant of AfterCatch in which an unexpected exception ends the process.
AfterCatchExitsOnUnexpected(e) == IF e = "Exception" THEN "halted" ELSE "sleep"

\* Both handlers of the loop log the error and fall through to the sleep.
AfterCatch(e) == "sleep"

\* The dashboard (app.py) stores the trading toggle.
SetTradingEnabled(b) ==
    /\ trading_enabled' = SettingOf(b)
    /\ UNCHANGED <<force_phase1_setting, event_id_setting, mainVars, clientVars, rqVars, rqHist,
                   exVars, cycVars, hedgeVars, fnVars, book_limit>>

\* The dashboard stores the Force Phase 1 setting.
SetForcePhase1(b) ==
    /\ force_phase1_setting' = SettingOf(b)
    /\ UNCHANGED <<trading_enabled, event_id_setting, mainVars, clientVars, rqVars, rqHist,
                   exVars, cycVars, hedgeVars, fnVars, book_limit>>

\* The dashboard stores the event to focus on; the empty string stands for
\* all events.
SetEventId(v) ==
    /\ event_id_setting' = v
    /\ UNCHANGED <<trading_enabled, force_phase1_setting, mainVars, clientVars,
                   rqVars, rqHist, exVars, cycVars, hedgeVars, fnVars, book_limit>>

\* main: db.init_db().
MainInitDb ==
    /\ m_pc = "init"
    /\ m_pc' = "startup"
    /\ trading_enabled' = InitDbSetting(trading_enabled)
    /\ UNCHANGED <<force_phase1_setting, event_id_setting, m_account, m_refresh_set, m_force,
                   m_snapshots, m_enabled_read, m_error, m_refreshed, m_started>>
    /\ UNCHANGED <<clientVars, rqVars, rqHist, exVars, cycVars, hedgeVars,
                   fnVars, book_limit>>

\* What login() leaves in the cache of the client.
LoginCaches(out) ==
    IF credentials /\ out \in {"200", "200_no_token"}
    THEN /\ session_token' = IF out = "200" THEN FreshToken(session_token)
                             ELSE "None"
         /\ account' = FreshAccount(account)
         /\ UNCHANGED credentials
    ELSE UNCHANGED clientVars

\* main: client.login() at startup.  MatchbookAPIError makes main return; an
\* exception of requests.post is not caught and ends the process as well.
MainStartupLogin(out, a) ==
    /\ m_pc = "startup"
    /\ LoginCaches(out)
    /\ m_pc' = IF LoginResult(out) = "ok" THEN "top" ELSE "halted"
    /\ m_error' = IF LoginResult(out) = "ok" THEN "none" ELSE LoginResult(out)
    /\ m_account' = IF credentials /\ out \in {"200", "200_no_token"}
                    THEN a ELSE m_account
    /\ UNCHANGED <<m_refresh_set, m_force, m_snapshots, m_enabled_read,
                   m_refreshed, m_started>>
    /\ UNCHANGED <<settingVars, rqVars, rqHist, exVars, cycVars, hedgeVars,
                   fnVars, book_limit>>

\* The top of the loop: the refresh of the account is due when
\* BALANCE_REFRESH_INTERVAL_SEC have passed since last_balance_refresh, which
\* starts at 0.0.
MainTop(due) ==
    /\ m_pc = "top"
    /\ m_started' = TRUE
    /\ m_snapshots' = 0
    /\ m_enabled_read' = "unread"
    /\ m_error' = "none"
    /\ m_refreshed' = FALSE
    /\ m_pc' = IF due \/ ~m_refresh_set THEN "refresh" ELSE "account"
    /\ UNCHANGED <<m_account, m_refresh_set, m_force>>
    /\ UNCHANGED <<settingVars, clientVars, rqVars, rqHist, exVars, cycVars,
                   hedgeVars, fnVars, book_limit>>

\* client.refresh_account(): a login.  MatchbookAPIError is caught by the
\* inner handler and the cycle goes on with the cached account; an exception
\* of requests.post goes to the handlers of the loop.
MainRefresh(out, a) ==
    /\ m_pc = "refresh"
    /\ LoginCaches(out)
    /\ m_account' = IF credentials /\ out \in {"200", "200_no_token"}
                    THEN a ELSE m_account
    /\ m_refresh_set' = (m_refresh_set \/ LoginResult(out) = "ok")
    /\ m_refreshed' = (LoginResult(out) = "ok")
    /\ IF LoginResult(out) \in {"ok", "MatchbookAuthError"}
       THEN m_pc' = "account" /\ UNCHANGED m_error
       ELSE m_pc' = "except" /\ m_error' = "Exception"
    /\ UNCHANGED <<m_force, m_snapshots, m_enabled_read, m_started>>
    /\ UNCHANGED <<settingVars, rqVars, rqHist, exVars, cycVars, hedgeVars,
                   fnVars, book_limit>>

\* The account is read from the cache, the phase and the daily ROI are
\* computed, and db.record_bankroll_snapshot writes the snapshot.
MainSnapshot ==
    /\ m_pc = "account"
    /\ m_snapshots' = m_snapshots + 1
    /\ m_pc' = "dispatch"
    /\ UNCHANGED <<m_account, m_refresh_set, m_force, m_enabled_read, m_error,
                   m_refreshed, m_started>>
    /\ UNCHANGED <<settingVars, clientVars, rqVars, rqHist, exVars, cycVars,
                   hedgeVars, fnVars, book_limit>>

\* if db.is_trading_enabled(): the Force Phase 1 setting is read and the phase
\* procedure is called; otherwise the cycle places no order.
MainDispatch ==
    /\ m_pc = "dispatch"
    /\ IF is_trading_enabled(trading_enabled)
       THEN /\ m_enabled_read' = "true"
            /\ m_force' = is_force_phase1(force_phase1_setting)
            /\ m_pc' = "run"
       ELSE /\ m_enabled_read' = "false"
            /\ m_pc' = "sleep"
            /\ UNCHANGED m_force
    /\ UNCHANGED <<m_account, m_refresh_set, m_snapshots, m_error, m_refreshed,
                   m_started>>
    /\ UNCHANGED <<settingVars, clientVars, rqVars, rqHist, exVars, cycVars,
                   hedgeVars, fnVars, book_limit>>

\* run_phase1 / run_phase2 has returned to main.
MainPhaseReturned ==
    /\ m_pc = "run"
    /\ pc \in {"p1_return", "p2_return"}
    /\ m_pc' = "sleep"
    /\ UNCHANGED <<m_account, m_refresh_set, m_force, m_snapshots,
                   m_enabled_read, m_error, m_refreshed, m_started>>
    /\ UNCHANGED <<settingVars, clientVars, rqVars, rqHist, exVars, cycVars,
                   hedgeVars, fnVars, book_limit>>

\* A call of the loop body outside the inner handlers raises: a db call
\* (Exception), or client.get_account() logging in again because the cache
\* holds no account (MatchbookAPIError).  A phase procedure in progress is
\* left where it is.
MainRaise(e) ==
    /\ \/ m_pc \in {"account", "dispatch"} /\ pc = "idle"
       \/ m_pc = "run" /\ pc \notin {"idle", "p1_return", "p2_return"}
    /\ m_pc' = "except"
    /\ m_error' = e
    /\ pc' = IF pc = "idle" THEN "idle"
             ELSE IF pc \in {"p1_events", "p1_matched", "p1_green", "p1_open",
                             "p1_scan"}
             THEN "p1_return" ELSE "p2_return"
    /\ UNCHANGED <<balance, free_funds, stake, can_place_back, events, matched,
                   gi, open_ids, scan, log, open_at_check, fetch_failed>>
    /\ UNCHANGED <<m_account, m_refresh_set, m_force, m_snapshots,
                   m_enabled_read, m_refreshed, m_started>>
    /\ UNCHANGED <<settingVars, clientVars, rqVars, rqHist, exVars, hedgeVars,
                   fnVars, book_limit>>

\* except MatchbookAPIError / except Exception of the loop.
MainCatch ==
    /\ m_pc = "except"
    /\ m_pc' = AfterCatch(m_error)
    /\ UNCHANGED <<m_account, m_refresh_set, m_force, m_snapshots,
                   m_enabled_read, m_error, m_refreshed, m_started>>
    /\ UNCHANGED <<settingVars, clientVars, rqVars, rqHist, exVars, cycVars,
                   hedgeVars, fnVars, book_limit>>

\* time.sleep(POLL_INTERVAL_SEC) is over.
MainSleep ==
    /\ m_pc = "sleep"
    /\ pc = "idle"
    /\ m_pc' = "top"
    /\ UNCHANGED <<m_account, m_refresh_set, m_force, m_snapshots,
                   m_enabled_read, m_error, m_refreshed, m_started>>
    /\ UNCHANGED <<settingVars, clientVars, rqVars, rqHist, exVars, cycVars,
                   hedgeVars, fnVars, book_limit>>

----------------------------------------------------------------------------
(* Calls of the pure functions *)

\* The balances, in pence, the functions are called with: the thresholds
\* and their neighbours, and a grid.  None of them puts balance x pct on
\* half a penny between MIN_STAKE and the cap, where round() of the float
\* depends on its binary representation.
Balances ==
    {0, 1, 99, 100, 2499, 2500, 3333, 3334, 16666, 16667, 19999, 20000,
     50000, 99999, 100000, 100001}
        \cup {1234 * k : k \in 0..MaxGrid}

\* main: effective_phase = 1 if db.is_force_phase1() else get_phase(balance)
CallEffectivePhase ==
    /\ fn_out.fn = "none"
    /\ fn_out' = [fn |-> "effective_phase", arg |-> 0,
                  value |-> EffectivePhase(fn_in.balance, fn_in.force_phase1)]
    /\ UNCHANGED <<fn_in, clientVars, rqVars, rqHist, exVars, cycVars, hedgeVars,
                   settingVars, mainVars, book_limit>>

\* get_stake(balance, phase)
CallGetStake(phase) ==
    /\ fn_out.fn = "none"
    /\ fn_out' = [fn |-> "get_stake", arg |-> phase,
                  value |-> get_stake(fn_in.balance, phase)]
    /\ UNCHANGED <<fn_in, clientVars, rqVars, rqHist, exVars, cycVars, hedgeVars,
                   settingVars, mainVars, book_limit>>

\* The arguments add_ticks_to_odds is called with: odds, in hundredths, below
\* the minimum, at the minimum and on both sides of every band limit.
TickArgs ==
    [fn : {"add_ticks_to_odds"},
     odds : {0, 50, 100, 101, 102, 150, 199, 200, 201, 299, 300, 399, 400,
             599, 600, 1000, 100000},
     ticks : 0..MaxTicks,
     side : {"back", "lay"}]

\* The arguments greening_up_lay_stake is called with: stakes in pence, odds
\* in hundredths, lay odds of zero and below included.
GreeningArgs ==
    [fn : {"greening_up_lay_stake"},
     back_stake : {100, 137, 500},
     back_odds : {101, 204, 420},
     lay_odds : {0 - 100, 0, 101, 206, 450, 1000}]

\* add_ticks_to_odds(odds, ticks, side)
CallAddTicks ==
    /\ fn_out.fn = "none"
    /\ fn_in.fn = "add_ticks_to_odds"
    /\ fn_out' = [fn |-> "add_ticks_to_odds", arg |-> fn_in.ticks,
                  value |-> add_ticks_to_odds(fn_in.odds, fn_in.ticks, fn_in.side)]
    /\ UNCHANGED <<fn_in, clientVars, rqVars, rqHist, exVars, cycVars, hedgeVars,
                   settingVars, mainVars, book_limit>>

\* greening_up_lay_stake(back_stake, back_odds, lay_odds)
CallGreeningStake ==
    /\ fn_out.fn = "none"
    /\ fn_in.fn = "greening_up_lay_stake"
    /\ fn_out' = [fn |-> "greening_up_lay_stake", arg |-> 0,
                  value |-> greening_up_lay_stake(fn_in.back_stake,
                                                  fn_in.back_odds, fn_in.lay_odds)]
    /\ UNCHANGED <<fn_in, clientVars, rqVars, rqHist, exVars, cycVars, hedgeVars,
                   settingVars, mainVars, book_limit>>

----------------------------------------------------------------------------
(* Specifications *)

InitClient ==
    /\ credentials \in BOOLEAN
    /\ session_token \in (IF credentials THEN {"None", "tokA"} ELSE {"None"})
    /\ account = IF session_token = "None" THEN "None" ELSE "acctA"

InitRq ==
    /\ rq_pc = "idle"
    /\ rq_method = "none"
    /\ rq_retry_on_auth = TRUE
    /\ rq_attempt = 0
    /\ rq_last_error = "None"
    /\ rq_result = "none"
    /\ rq_error = "none"
    /\ rq_sends = 0
    /\ rq_resends = 0
    /\ rq_logins = 0
    /\ rq_401s = 0
    /\ rq_placed = 0
    /\ rq_last_status = "none"
    /\ rq_trace = <<>>

\* No cycle is running.
InitCycle ==
    /\ pc = "idle"
    /\ balance = 0
    /\ free_funds = 0
    /\ stake = 0
    /\ can_place_back = FALSE
    /\ events = <<>>
    /\ matched = <<>>
    /\ gi = 0
    /\ open_ids = <<>>
    /\ scan = 0
    /\ log = <<>>
    /\ open_at_check = 0
    /\ fetch_failed = FALSE

\* The bot before its first cycle, on an account without unsettled offers.
InitBot ==
    /\ offers = <<>>
    /\ closes = <<>>
    /\ InitCycle

\* A logged-in client, as main leaves it after its startup login.
InitLoggedIn ==
    /\ credentials = TRUE
    /\ session_token = "tokA"
    /\ account = "acctA"

\* No emergency hedge has been invoked.
InitHedge ==
    /\ h_pc = "idle"
    /\ h_matched = <<>>
    /\ h_i = 0
    /\ h_events = <<>>
    /\ h_log = <<>>
    /\ h_result = <<FALSE, "none">>
    /\ h_calls = <<>>

\* The exchange books MaxOffers offers on the account.
InitExchange == book_limit = MaxOffers

\* The settings table does not exist yet and main has not started.
InitMain ==
    /\ trading_enabled = "missing"
    /\ force_phase1_setting = "missing"
    /\ event_id_setting = NoEventId
    /\ m_pc = "init"
    /\ m_account = [balance |-> 0, free_funds |-> 0]
    /\ m_refresh_set = FALSE
    /\ m_force = FALSE
    /\ m_snapshots = 0
    /\ m_enabled_read = "unread"
    /\ m_error = "none"
    /\ m_refreshed = FALSE
    /\ m_started = FALSE

\* No pure function is being called.
InitFn ==
    /\ fn_in = [balance |-> 0, force_phase1 |-> FALSE]
    /\ fn_out = [fn |-> "none", arg |-> 0, value |-> 0]

InitRequest == InitClient /\ InitRq /\ InitBot /\ InitHedge /\ InitFn /\ InitMain /\ InitExchange

NextRequest ==
    \/ \E m \in Methods : RqCall(m)
    \/ \E out \in SendOutcomes : RqSend(out)
    \/ \E out \in LoginOutcomes : RqLogin(out)
    \/ \E out \in LoginOutcomes : Login(out)

\* The client executing public calls one after another.
SpecRequest == InitRequest /\ [][NextRequest]_vars

\* The same, with every HTTP request coming to an end: requests.request and
\* requests.post are given timeout=self.timeout, and the sleeps between
\* attempts are finite.
SpecRequestLive ==
    /\ InitRequest
    /\ [][NextRequest]_vars
    /\ WF_vars(\E out \in SendOutcomes : RqSend(out))
    /\ WF_vars(\E out \in LoginOutcomes : RqLogin(out))

InitPhase1 == InitLoggedIn /\ InitRq /\ InitBot /\ InitHedge /\ InitFn /\ InitMain /\ InitExchange

NextPhase1 ==
    \/ \E a \in Accounts, force \in BOOLEAN : P1Start(a, force)
    \/ \E f \in FeedOutcomes : P1FetchEvents(f)
    \/ \E ok \in BOOLEAN : P1FetchMatched(ok)
    \/ \E out \in SubmitOutcomes : P1Green(out)
    \/ \E ok \in BOOLEAN : P1OpenCheck(ok)
    \/ \E out \in SubmitOutcomes : P1Scan(out)
    \/ Return
    \/ \E i \in 1..Len(offers) : ExMatch(i)

\* Cycles of the main loop that run the Phase 1 procedure, on an exchange that
\* matches open offers at any time.
SpecPhase1 == InitPhase1 /\ [][NextPhase1]_vars

InitPhase2 == InitLoggedIn /\ InitRq /\ InitBot /\ InitHedge /\ InitFn /\ InitMain /\ InitExchange

NextPhase2 ==
    \/ \E a \in Accounts, force \in BOOLEAN : P2Start(a, force)
    \/ \E f \in Phase2FeedOutcomes : P2FetchEvents(f)
    \/ \E ok \in BOOLEAN : P2FetchOffers(ok)
    \/ \E ok \in BOOLEAN : P2Cancel(ok)
    \/ \E out \in QuoteOutcomes : P2Scan(out)
    \/ Return
    \/ \E i \in 1..Len(offers) : ExMatch(i)

\* Cycles of the main loop that run the Phase 2 procedure, on an exchange that
\* matches open offers between cycles.
SpecPhase2 == InitPhase2 /\ [][NextPhase2]_vars

\* The same cycles, the bot being the only client of an account that starts
\* without offers, on an exchange that books one offer more than MaxOffers.
InitPhase2Alone ==
    /\ InitLoggedIn /\ InitRq /\ InitBot /\ InitHedge /\ InitFn /\ InitMain
    /\ book_limit = MaxOffers + 1

SpecPhase2Alone == InitPhase2Alone /\ [][NextPhase2]_vars

\* Main has logged in and the account holds one matched Back on runner 2 of
\* event 1; no event filter is set.
InitGreening ==
    /\ InitLoggedIn /\ InitRq /\ InitHedge /\ InitFn /\ InitMain /\ InitCycle
    /\ InitExchange
    /\ offers = << NewOffer(2, "back", 420, 500, "matched") >>
    /\ closes = << 0 >>

\* The account the cycles of the greening runs read: the free funds cover the
\* lay liability of the greening Lay of every Back the cycles place.
GreeningAccount == [balance |-> 18000, free_funds |-> 1634]

\* The ids the operator may enter as the event to focus on.
EventIdSettings == {NoEventId, 1, 2}

\* One step of a Phase 1 cycle whose fetches succeed, events 1 and 2 being open
\* on the exchange with their prices.
GreeningCycleStep ==
    \/ P1Start(GreeningAccount, TRUE)
    \/ P1FetchEvents("two_events")
    \/ P1FetchMatched(TRUE)
    \/ \E out \in {"matched", "failed"} : P1Green(out)
    \/ P1OpenCheck(TRUE)
    \/ \E out \in {"matched", "failed"} : P1Scan(out)
    \/ Return

NextGreening ==
    \/ \E v \in EventIdSettings : SetEventId(v)
    \/ GreeningCycleStep

\* Phase 1 cycles with successful fetches, the operator setting the event
\* filter at any time.
SpecGreening == InitGreening /\ [][NextGreening]_vars

\* The loop over the matched offers takes its next iteration or ends: the
\* steps of P1Green, which is enabled whenever the cycle is in the loop (a
\* submission can always be answered failed).
GreeningLoopStep ==
    /\ pc = "p1_green"
    /\ \/ gi' = gi + 1 /\ pc' = "p1_green"
       \/ gi' = gi /\ pc' = "p1_open"

\* The same, the bot process going on: main sleeps POLL_INTERVAL_SEC and runs
\* the next cycle, and every exchange call of a cycle returns.
SpecGreeningLive ==
    /\ SpecGreening
    /\ WF_vars(P1Start(GreeningAccount, TRUE))
    /\ WF_vars(P1FetchEvents("two_events"))
    /\ WF_vars(P1FetchMatched(TRUE))
    /\ WF_<<pc, gi>>(GreeningLoopStep)
    /\ WF_vars(P1OpenCheck(TRUE))
    /\ WF_vars(\E out \in {"matched", "failed"} : P1Scan(out))
    /\ WF_vars(Return)

\* The cycle worker is idle and the account holds some unsettled offers.
InitHedgeSpec ==
    /\ InitLoggedIn /\ InitRq /\ InitHedge /\ InitFn /\ InitMain /\ InitExchange
    /\ offers \in HedgeBooks
    /\ closes = [i \in 1..Len(offers) |-> 0]
    /\ pc = "idle"
    /\ balance = 0
    /\ free_funds = 0
    /\ stake = 0
    /\ can_place_back = FALSE
    /\ events = <<>>
    /\ matched = <<>>
    /\ gi = 0
    /\ open_ids = <<>>
    /\ scan = 0
    /\ log = <<>>
    /\ open_at_check = 0
    /\ fetch_failed = FALSE

NextHedge ==
    \/ \E ok \in BOOLEAN : HedgeStart(ok)
    \/ \E ok \in BOOLEAN : HedgeFetchOffers(ok)
    \/ \E f \in FeedOutcomes : HedgeFetchEvents(f)
    \/ \E out \in SubmitOutcomes : HedgeStep(out)
    \/ HedgeReturn
    \/ \E i \in 1..Len(offers) : ExMatch(i)

\* Invocations of the emergency hedge, one after another, on an exchange
\* that matches open offers at any time.
SpecHedge == InitHedgeSpec /\ [][NextHedge]_vars

InitSizing ==
    /\ InitLoggedIn /\ InitRq /\ InitBot /\ InitHedge /\ InitMain /\ InitExchange
    /\ fn_in \in [balance : Balances, force_phase1 : BOOLEAN]
    /\ fn_out = [fn |-> "none", arg |-> 0, value |-> 0]

NextSizing ==
    \/ CallEffectivePhase
    \/ \E phase \in {1, 2} : CallGetStake(phase)

\* Phase selection and stake sizing applied to a balance and a Force Phase 1
\* setting.
SpecSizing == InitSizing /\ [][NextSizing]_vars

InitFormulas ==
    /\ InitLoggedIn /\ InitRq /\ InitBot /\ InitHedge /\ InitMain /\ InitExchange
    /\ fn_in \in TickArgs \cup GreeningArgs
    /\ fn_out = [fn |-> "none", arg |-> 0, value |-> 0]

NextFormulas ==
    \/ CallAddTicks
    \/ CallGreeningStake

\* The pricing formulas applied to their arguments.
SpecFormulas == InitFormulas /\ [][NextFormulas]_vars

\* main has not started: the client is new, the settings table is empty, and
\* the account holds a matched Back and an open Back of an earlier run.
InitMainSpec ==
    /\ credentials \in BOOLEAN
    /\ session_token = "None"
    /\ account = "None"
    /\ offers = << NewOffer(2, "back", 420, 500, "matched"),
                   NewOffer(3, "back", 204, 100, "open") >>
    /\ closes = << 0, 0 >>
    /\ InitCycle /\ InitRq /\ InitHedge /\ InitFn /\ InitMain /\ InitExchange

\* The steps of the bot process.
MainStep ==
    \/ MainInitDb
    \/ \E out \in LoginOutcomes, a \in MainAccounts : MainStartupLogin(out, a)
    \/ \E due \in BOOLEAN : MainTop(due)
    \/ \E out \in LoginOutcomes, a \in MainAccounts : MainRefresh(out, a)
    \/ MainSnapshot
    \/ MainDispatch
    \/ m_pc = "run" /\ P1Start(m_account, m_force)
    \/ m_pc = "run" /\ P2Start(m_account, m_force)
    \/ \E f \in {"normal", "error"} : P1FetchEvents(f)
    \/ \E ok \in BOOLEAN : P1FetchMatched(ok)
    \/ P1Green("error")
    \/ \E ok \in BOOLEAN : P1OpenCheck(ok)
    \/ P1Scan("failed")
    \/ \E f \in {"normal", "error"} : P2FetchEvents(f)
    \/ \E ok \in BOOLEAN : P2FetchOffers(ok)
    \/ \E ok \in BOOLEAN : P2Cancel(ok)
    \/ P2Scan(<<"failed", "failed">>)
    \/ MainPhaseReturned
    \/ \E e \in CycleErrors : MainRaise(e)
    \/ MainCatch
    \/ m_pc = "sleep" /\ Return
    \/ MainSleep

NextMain ==
    \/ MainStep
    \/ \E b \in BOOLEAN : SetTradingEnabled(b)
    \/ \E b \in BOOLEAN : SetForcePhase1(b)

\* The bot process from its start, with the operator changing the settings
\* at any time.
SpecMain == InitMainSpec /\ [][NextMain]_vars

\* The same, with the bot process going on after a cycle: the handlers of
\* the loop and the return of a phase procedure are local code, the sleep
\* between cycles is finite, and the top of the loop makes no call.
SpecMainLive ==
    /\ SpecMain
    /\ WF_vars(MainCatch)
    /\ WF_vars(m_pc = "sleep" /\ Return)
    /\ WF_vars(MainSleep)
    /\ WF_vars(\E due \in BOOLEAN : MainTop(due))

\* The cycle worker is idle, no hedge is in progress, and the account, with
\* free funds for the closing orders, holds one matched Back; the exchange
\* books the Back, and one offer more than MaxOffers.
InitConcurrent ==
    /\ InitLoggedIn /\ InitRq /\ InitHedge /\ InitFn /\ InitMain /\ InitCycle
    /\ offers = << NewOffer(2, "back", 420, 500, "matched") >>
    /\ closes = << 0 >>
    /\ book_limit = MaxOffers + 1

\* The account the cycles of the concurrent runs read.
ConcurrentAccount == [balance |-> 18000, free_funds |-> 1634]

NextConcurrent ==
    \/ P1Start(ConcurrentAccount, TRUE)
    \/ \E f \in {"normal", "error"} : P1FetchEvents(f)
    \/ \E ok \in BOOLEAN : P1FetchMatched(ok)
    \/ \E out \in {"matched", "error"} : P1Green(out)
    \/ \E ok \in BOOLEAN : P1OpenCheck(ok)
    \/ \E out \in {"matched", "error"} : P1Scan(out)
    \/ Return
    \/ \E ok \in BOOLEAN : HedgeStart(ok)
    \/ \E ok \in BOOLEAN : HedgeFetchOffers(ok)
    \/ \E f \in {"normal", "error"} : HedgeFetchEvents(f)
    \/ \E out \in {"matched", "error"} : HedgeStep(out)
    \/ HedgeReturn

\* The bot process running Phase 1 cycles and the dashboard process running
\* emergency hedges, their exchange calls interleaved in any order: the two
\* are separate processes and take no common lock.
SpecConcurrent == InitConcurrent /\ [][NextConcurrent]_vars

----------------------------------------------------------------------------
(* Properties *)

\* The Back submissions and the quotes of the current cycle, in order.
BackSubs == SelectSeq(log, LAMBDA e : e.kind = "back")
GreenSubs == SelectSeq(log, LAMBDA e : e.kind = "green")
QuoteSubs == SelectSeq(log, LAMBDA e : e.kind = "quote")
CancelSubs == SelectSeq(log, LAMBDA e : e.kind = "cancel")

\* The ids of the runners of the fetched events that Phase 1 may back, in
\* event, market, runner order.
QualifyingIds ==
    LET so == SelectSeq(ScanOrder(events), LAMBDA x : P1Qualifies(x.runner))
    IN  [k \in DOMAIN so |-> so[k].runner.id]

\* C1: over any sequence of Phase 1 cycles, at most one greening Lay is
\* placed (answered open or matched) for one matched Back.
C1_AtMostOneGreeningPerBack ==
    \A i \in DOMAIN closes : closes[i] <= 1

\* C2: one submit_offers call places its order on the exchange at most once,
\* whatever the attempts of the call end in.
C2_SubmitPlacedAtMostOnce ==
    rq_method = "submit_offers" => rq_placed <= 1

\* C3: the lay liability, stake * (odds - 1), of every greening Lay that
\* Phase 1 submits is within the free funds of the cycle.
C3_GreeningLiabilityWithinFunds ==
    \A k \in DOMAIN GreenSubs :
        GreenSubs[k].stake * (GreenSubs[k].odds - 100) <= free_funds * 100

\* C4: Phase 1 submits no new Back in a cycle in which two or more open
\* offers exist on the account, nor when the free funds are below the stake.
C4_NoBackWithTwoOpenOffers ==
    BackSubs # <<>> => open_at_check < 2 /\ free_funds >= stake

\* C5, as claimed: a Phase 1 cycle makes no second Back submission, and a
\* cycle that reaches the scan with a qualifying runner in the fetched events
\* submits exactly one Back, for the first qualifying runner.
C5_ExactlyOneBackSubmission ==
    /\ Len(BackSubs) <= 1
    /\ (pc = "p1_return" /\ scan # 0 /\ QualifyingIds # <<>>) =>
            Len(BackSubs) = 1 /\ BackSubs[1].runner_id = QualifyingIds[1]

\* C5, amended: the Back submissions of a Phase 1 cycle go through the
\* qualifying runners in event, market, runner order, one submission per
\* runner; a further submission is made only when every earlier one was
\* answered failed or raised an exchange error, and the scan ends with the
\* first submission answered open, matched or delayed, or with the last
\* qualifying runner.
C5_BacksInScanOrderUntilPlaced ==
    /\ Len(BackSubs) <= Len(QualifyingIds)
    /\ \A j \in DOMAIN BackSubs :
            /\ BackSubs[j].runner_id = QualifyingIds[j]
            /\ j < Len(BackSubs) =>
                    BackSubs[j].status \notin {"open", "matched", "delayed"}
    /\ (pc = "p1_return" /\ scan # 0) =>
            \/ Len(BackSubs) = Len(QualifyingIds)
            \/ /\ BackSubs # <<>>
               /\ BackSubs[Len(BackSubs)].status \in {"open", "matched", "delayed"}

\* C5 witness: a cycle whose first Back was answered failed and whose second
\* Back, for the next qualifying runner, was placed.
C5_Witness ==
    /\ pc = "p1_return"
    /\ Len(BackSubs) = 2
    /\ BackSubs[1].status = "failed"
    /\ BackSubs[2].status \in {"open", "matched"}

\* C6: Phase 2 submits a quote only in a cycle in which none of the offers
\* that were on the account before it is open and fewer than two of them are
\* matched.
C6_NoQuoteWhileOfferOpen ==
    \A k \in DOMAIN QuoteSubs :
        LET prior == 1..(QuoteSubs[k].first_id - 1)
        IN  /\ \A i \in prior : offers[i].status # "open"
            /\ Cardinality({i \in prior : offers[i].status = "matched"}) < 2

\* C6 witness: a Phase 2 cycle that ends without a quote because an offer is
\* open, although a runner qualifies for a quote.
C6_Witness ==
    /\ pc = "p2_return"
    /\ open_ids # <<>>
    /\ matched = <<>>
    /\ P2Target(events, stake, free_funds) # 0
    /\ QuoteSubs = <<>>

\* C7: a Phase 2 cycle whose offer fetch shows a matched offer together with
\* open offers issues a cancel request that names every open offer fetched.
C7_CancelCoversEveryOpenOffer ==
    (pc = "p2_return" /\ matched # <<>> /\ open_ids # <<>>) =>
        \E k \in DOMAIN CancelSubs :
            \A j \in DOMAIN open_ids :
                \E m \in DOMAIN CancelSubs[k].ids : CancelSubs[k].ids[m] = open_ids[j]

\* C7 witness: a Phase 2 cycle that fetched a matched offer and two open
\* offers and has issued its cancel request.
C7_Witness ==
    /\ pc = "p2_return"
    /\ matched # <<>>
    /\ Len(open_ids) = 2
    /\ CancelSubs # <<>>

\* C8: a cycle with a balance below PHASE1_MIN submits no order.
C8_NoOrderBelowPhase1Min ==
    (pc # "idle" /\ balance < PHASE1_MIN) => log = <<>>

\* C9: in a call that receives a 401 the client makes one re-login and no
\* second one, and a call whose re-login succeeded sends the request again
\* exactly once.
C9_OneReloginOneResend ==
    /\ rq_logins <= 1
    /\ (rq_pc = "done" /\ ~rq_retry_on_auth) => rq_resends = 1

\* C10: a call whose request, sent again after the re-login, receives 401
\* fails with MatchbookAuthError.
C10_Second401RaisesAuthError ==
    (rq_pc = "done" /\ ~rq_retry_on_auth /\ rq_last_status = "401") =>
        rq_result = "MatchbookAuthError"

----------------------------------------------------------------------------
(* Properties of the retry loop and of login *)

\* The outcomes of the attempts of the request of the current call, in order
\* (the re-logins left out).
SendTrace ==
    LET t == SelectSeq(rq_trace, LAMBDA e : e[1] = "send")
    IN  [k \in DOMAIN t |-> t[k][2]]

\* The attempts k, k+1, k+2 of the request were all answered 429.
ThreeRateLimitsAt(k) ==
    /\ k + 2 <= Len(SendTrace)
    /\ \A j \in k..(k + 2) : SendTrace[j] = "429"

C12_EveryCallTerminates ==
    /\ [](rq_sends <= 2 * MAX_RETRIES /\ rq_logins <= MAX_RETRIES)
    /\ [](rq_pc = "done" => rq_result # "none")
    /\ (rq_pc \in {"send", "login"}) ~> (rq_pc = "done")

\* A call that saw a 401, a 429 and a timeout has ended.
C12_Witness ==
    /\ rq_pc = "done"
    /\ rq_method \in Methods
    /\ \E i, j, k \in DOMAIN SendTrace :
            /\ SendTrace[i] = "401"
            /\ SendTrace[j] = "429"
            /\ SendTrace[k] \in {"timeout_lost", "timeout_done"}

\* The cause of a retried failure, as the error raised after the loop would
\* name it.
CauseOf(e) ==
    IF e[2] = "429" THEN "RateLimit"
    ELSE IF e[2] \in {"timeout", "timeout_lost", "timeout_done"} THEN "Timeout"
    ELSE IF e[2] = "conn" THEN "ConnectionError"
    ELSE "None"

\* C13: when a call exhausts its retries, the MatchbookAPIError raised
\* carries the cause of the last failed attempt: rate limit, timeout or
\* connection error.
C13_ExhaustionCarriesLastCause ==
    (/\ rq_pc = "done"
     /\ rq_result = "MatchbookAPIError"
     /\ rq_error[1] = "failed_after_retries")
        => rq_error[2] = CauseOf(rq_trace[Len(rq_trace)])

\* C14: a response with a status >= 400 other than 401 and 429 ends the call
\* at once with MatchbookAPIError carrying the status: it is the last
\* attempt of the call, so such a response is received at most once and the
\* request is not sent again.
C14_OtherErrorStatusIsFatal ==
    /\ \A k \in DOMAIN SendTrace : SendTrace[k] = "500" => k = Len(SendTrace)
    /\ rq_last_status = "500" =>
            /\ rq_pc = "done"
            /\ rq_result = "MatchbookAPIError"
            /\ rq_error = <<"api_error", "500">>

\* The fatal status came on a later attempt of the call.
C14_Witness ==
    /\ rq_pc = "done"
    /\ rq_last_status = "500"
    /\ rq_sends >= 2
    /\ rq_result = "MatchbookAPIError"

\* C15: login() fails with MatchbookAuthError when the credentials are
\* absent, without sending a request, and when the session endpoint answers
\* 4xx; and a login() that does not succeed leaves the cached session token
\* and account snapshot as they were.
C15_LoginCachesOnlyOnSuccess ==
    /\ []((rq_method = "login" /\ rq_pc = "done") =>
            /\ ~credentials => (rq_result = "MatchbookAuthError" /\ rq_trace = <<>>)
            /\ (credentials /\ rq_trace[1][2] = "400") =>
                    rq_result = "MatchbookAuthError")
    /\ [][(rq_method' = "login" /\ rq_result' # "ok")
             => UNCHANGED <<session_token, account>>]_vars

----------------------------------------------------------------------------
(* Properties of the emergency hedge *)

\* The invocation has fetched the matched offers without an error.
HedgeFetchedOffers ==
    /\ Len(h_calls) >= 2
    /\ h_calls[2] = <<"get_offers", "ok">>

\* The submissions of the invocation that close the offer id.
HedgeSubsFor(id) == SelectSeq(h_log, LAMBDA e : e.ref = id)

\* C16: with zero matched offers the emergency hedge returns success with a
\* nothing-to-hedge result, submits no offer and fetches no market data (its
\* exchange calls are the login and the fetch of the matched offers).
C16_NothingToHedge ==
    (/\ h_pc = "done"
     /\ HedgeFetchedOffers
     /\ \A i \in 1..Len(offers) : offers[i].status # "matched")
        => /\ h_result = <<TRUE, "No matched positions to hedge.">>
           /\ h_log = <<>>
           /\ Len(h_calls) = 2

\* The hedge has returned on an account that holds an open offer and no
\* matched one.
C16_Witness ==
    /\ h_pc = "done"
    /\ HedgeFetchedOffers
    /\ offers # <<>>
    /\ \A i \in 1..Len(offers) : offers[i].status # "matched"
    /\ h_result[1] = TRUE

\* The full price ladder of the runner of an offer in the feed the
\* invocation fetched.
HedgeLadder(offer) ==
    LET so == ScanOrder(Feed(h_calls[3][2]))
        k == CHOOSE k \in DOMAIN so : so[k].runner.id = offer.runner_id
    IN  get_best_prices(so[k].runner)

HedgeBestOpposing(offer) ==
    IF Feed(h_calls[3][2]) = <<>> THEN NoPrice
    ELSE IF offer.side = "back" THEN HedgeLadder(offer).best_lay
    ELSE HedgeLadder(offer).best_back

\* C17: when an emergency hedge invocation that fetched prices has ended,
\* every matched offer with an opposing price available has exactly one
\* closing submission, on the opposite side, at the best opposing price
\* (lowest lay for a Back, highest back for a Lay), with stake = offer stake
\* x offer odds / opposing odds (to the penny); a matched offer without an
\* opposing price has none.
C17_OneClosingOrderPerMatchedOffer ==
    (/\ h_pc = "done"
     /\ Len(h_calls) >= 3
     /\ h_calls[3][1] = "get_events"
     /\ h_calls[3][2] # "error")
        => \A k \in DOMAIN h_matched :
              LET id == h_matched[k]
                  opp == HedgeBestOpposing(offers[id])
                  subs == HedgeSubsFor(id)
              IN  IF opp = NoPrice THEN subs = <<>>
                  ELSE /\ Len(subs) = 1
                       /\ subs[1].side # offers[id].side
                       /\ subs[1].odds = opp
                       /\ subs[1].stake =
                              Round2(<<offers[id].stake * offers[id].odds, opp>>)

\* C18: when the submission of a closing order fails with an exchange error,
\* the emergency hedge still reports success and still goes through the
\* remaining matched offers.
C18_SubmissionErrorNotSurfaced ==
    (/\ h_pc = "done"
     /\ \E k \in DOMAIN h_log : h_log[k].status = "error")
        => /\ h_result[1] = TRUE
           /\ h_i > Len(h_matched)

----------------------------------------------------------------------------
(* Properties of phase selection and stake sizing *)

\* C19: the phase whose procedure a cycle runs is 1 whenever force_phase1 is
\* set; otherwise it is 1 for every balance below 200.00 (balances below
\* 25.00 included) and 2 for every balance at or above 200.00.
C19_PhaseSelection ==
    fn_out.fn = "effective_phase" =>
        fn_out.value = IF fn_in.force_phase1 THEN 1
                       ELSE IF fn_in.balance < 20000 THEN 1
                       ELSE 2

\* phase(24.99, force = false) = 1
C19_Witness ==
    /\ fn_out.fn = "effective_phase"
    /\ fn_in.balance = 2499
    /\ ~fn_in.force_phase1
    /\ fn_out.value = 1

\* MAX_STAKE[phase] and stake_pct[phase], in percent
MaxStakeOf(phase) == IF phase = 1 THEN MAX_STAKE_PHASE1 ELSE MAX_STAKE_PHASE2
StakePctOf(phase) == IF phase = 1 THEN STAKE_PCT_PHASE1 ELSE STAKE_PCT_PHASE2

\* C20: for every balance and each phase the sizing stake is
\* clamp(balance x stake_pct[phase], MIN_STAKE, MAX_STAKE[phase]) rounded to
\* the penny (it is a whole number of pence within half a penny of the
\* clamp), and MIN_STAKE <= stake <= MAX_STAKE[phase].
C20_StakeIsClamped ==
    fn_out.fn = "get_stake" =>
        LET raw100 == fn_in.balance * StakePctOf(fn_out.arg)
            cap100 == MaxStakeOf(fn_out.arg) * 100
            min100 == MIN_STAKE * 100
            capped == IF raw100 > cap100 THEN cap100 ELSE raw100
            clamp100 == IF capped < min100 THEN min100 ELSE capped
            diff == fn_out.value * 100 - clamp100
        IN  /\ MIN_STAKE <= fn_out.value
            /\ fn_out.value <= MaxStakeOf(fn_out.arg)
            /\ -50 <= diff /\ diff <= 50

\* A stake strictly between the bounds that was rounded: 3% of 33.34 is
\* 1.0002, staked 1.00.
C20_Witness ==
    /\ fn_out.fn = "get_stake"
    /\ fn_out.arg = 1
    /\ fn_in.balance = 3334
    /\ fn_out.value = 100

-----------------------------------------------------------------------------
(* Properties of the failure policy and of the new Backs of Phase 1 *)

\* C26: in either phase, once a fetch of the cycle (events, matched offers,
\* open offers) has failed with an exchange error, the cycle submits no order
\* and issues no cancel.
C26_NoOrderAfterFailedFetch ==
    [][fetch_failed => Len(log') <= Len(log)]_vars

\* The greening submissions of the current cycle that refer to offer id.
GreenSubsFor(id) == SelectSeq(log, LAMBDA e : e.kind = "green" /\ e.ref = id)

\* C27: in Phase 1 a greening submission that ends in an exchange error or a
\* failed status books nothing for its Back and the loop goes on with the
\* next matched offer; once the loop is over, the greening Lay of every
\* matched Back that passed the checks has been submitted exactly once,
\* whatever the submissions for the other Backs ended in.
C27_SiblingGreeningsStillMade ==
    /\ [](pc \in {"p1_open", "p1_scan", "p1_return"}
            => \A k \in DOMAIN matched :
                  Greening(events, offers[matched[k]], free_funds).submit
                      => Len(GreenSubsFor(matched[k])) = 1)
    /\ [][(/\ pc = "p1_green"
           /\ Len(log') = Len(log) + 1
           /\ log'[Len(log')].status \in {"error", "failed"})
              => /\ offers' = offers
                 /\ closes' = closes
                 /\ pc' = "p1_green"
                 /\ gi' = gi + 1]_vars

\* The loop is over; the greening Lay of the first matched Back ended in an
\* exchange error and the one of a later matched Back was still submitted.
C27_Witness ==
    /\ pc = "p1_open"
    /\ Len(GreenSubs) >= 2
    /\ GreenSubs[1].status = "error"
    /\ GreenSubs[2].ref # GreenSubs[1].ref
    /\ closes[GreenSubs[1].ref] = 0

\* C30: every new Back Phase 1 submits is for a runner of the fetched events
\* whose best back odds lie in [1.5, 10.0], is staked at the Phase 1 stake of
\* the balance, and is priced strictly above the best back odds of the runner.
C30_NewBackInBandAboveBest ==
    \A j \in DOMAIN BackSubs :
        \E k \in DOMAIN ScanOrder(events) :
            LET r == ScanOrder(events)[k].runner
                best_back == get_best_prices(r).best_back
            IN  /\ r.id = BackSubs[j].runner_id
                /\ 150 <= best_back /\ best_back <= 1000
                /\ BackSubs[j].stake = get_stake(balance, 1)
                /\ BackSubs[j].odds > best_back

\* A Back was submitted two ticks above a best back of 4.00.
C30_Witness ==
    /\ Len(BackSubs) >= 1
    /\ BackSubs[1].runner_id = 2
    /\ BackSubs[1].odds = 420
    /\ BackSubs[1].status = "matched"

-----------------------------------------------------------------------------
(* Properties of the pricing formulas *)

\* C24: add_ticks_to_odds returns odds below 1.01 unchanged; for odds of 1.01
\* or more and at least one tick it returns a price strictly higher on the
\* back side and strictly lower on the lay side, in whole hundredths; 2.00
\* plus two ticks on the back side is 2.04, 1.50 less one tick on the lay side
\* is 1.49, and 1.00 with five ticks on the back side stays 1.00.
C24_TickAdjust ==
    fn_out.fn = "add_ticks_to_odds" =>
        LET odds == fn_in.odds
            ticks == fn_in.ticks
            side == fn_in.side
            v == fn_out.value
        IN  /\ v \in Int
            /\ odds < 101 => v = odds
            /\ (odds >= 101 /\ ticks >= 1 /\ side = "back") => v > odds
            /\ (odds >= 101 /\ ticks >= 1 /\ side = "lay") => v < odds
            /\ (odds = 200 /\ ticks = 2 /\ side = "back") => v = 204
            /\ (odds = 150 /\ ticks = 1 /\ side = "lay") => v = 149
            /\ (odds = 100 /\ ticks = 5 /\ side = "back") => v = 100

\* Two ticks were added to 2.00 on the back side.
C24_Witness ==
    /\ fn_out.fn = "add_ticks_to_odds"
    /\ fn_in.odds = 200 /\ fn_in.ticks = 2 /\ fn_in.side = "back"
    /\ fn_out.value = 204

\* The net profit, in hundredths of a penny, of a Back of back_stake at
\* back_odds closed by a Lay of lay_stake (a fraction of pence) at lay_odds:
\* when the selection wins the Back pays its stake times (odds - 1) and the
\* Lay costs its liability; when it loses the Lay pays its stake and the
\* Back costs its stake.  Both over the denominator of the liability.
ProfitIfWins(back_stake, back_odds, lay_stake, lay_odds) ==
    LET liability == lay_liability(lay_stake, lay_odds)
    IN  <<back_stake * (back_odds - 100) * (liability[2] \div 100) - liability[1],
          liability[2]>>

ProfitIfLoses(back_stake, back_odds, lay_stake, lay_odds) ==
    <<(lay_stake[1] - back_stake * lay_stake[2]) * 100, lay_stake[2] * 100>>

\* C25: for back odds and lay odds above 1.0, a Back closed by a Lay of
\* greening_up_lay_stake(back_stake, back_odds, lay_odds) at lay_odds has the
\* same net profit whether the selection wins or loses; with the stake
\* rounded to pence the two profits differ by at most half a penny times the
\* lay odds.  For lay odds of zero or less the function returns 0.
C25_GreeningEqualisesProfit ==
    fn_out.fn = "greening_up_lay_stake" =>
        LET s == fn_in.back_stake
            b == fn_in.back_odds
            l == fn_in.lay_odds
            x == fn_out.value
            r == FracOfInt(Round2(x))
        IN  /\ l <= 0 => x = FracOfInt(0)
            /\ (b > 100 /\ l > 100) =>
                  /\ ProfitIfWins(s, b, x, l)[2] = ProfitIfLoses(s, b, x, l)[2]
                  /\ ProfitIfWins(s, b, x, l)[1] = ProfitIfLoses(s, b, x, l)[1]
                  /\ LET d == ProfitIfWins(s, b, r, l)[1] - ProfitIfLoses(s, b, r, l)[1]
                     IN  /\ ProfitIfWins(s, b, r, l)[2] = 100
                         /\ ProfitIfLoses(s, b, r, l)[2] = 100
                         /\ 2 * d <= l /\ 0 - l <= 2 * d

\* The Lay that closes a Back of 5.00 at 4.20 at lay odds of 4.50 was
\* computed: 4.67 to the penny.
C25_Witness ==
    /\ fn_out.fn = "greening_up_lay_stake"
    /\ fn_in.back_stake = 500 /\ fn_in.back_odds = 420 /\ fn_in.lay_odds = 450
    /\ Round2(fn_out.value) = 467

-----------------------------------------------------------------------------
(* Properties of the main loop *)

\* C21: every cycle of the main loop writes exactly one bankroll snapshot,
\* whether trading is enabled or not, whether orders are placed or not, and
\* whether the exchange calls of the cycle succeed or fail.
C21_OneSnapshotPerCycle ==
    (m_pc = "sleep" /\ m_started) => m_snapshots = 1

\* C22: the process halts only on a failed startup login, before any cycle;
\* after a cycle that ends in an error (an exchange error or an unexpected
\* exception) the next cycle is eventually begun.
C22_CycleErrorNeverHalts ==
    /\ [](m_pc = "halted" => ~m_started)
    /\ (m_pc = "except") ~> (m_pc \in {"refresh", "account"})

\* A cycle ended in an exchange error, which the loop caught; main sleeps
\* until the next cycle.
C22_Witness ==
    /\ m_pc = "sleep"
    /\ m_started
    /\ m_error = "MatchbookAPIError"

\* C23: in a cycle in which the trading toggle reads false no phase procedure
\* runs and no order or cancel is issued; and the toggle does not read true
\* until the operator has enabled it: it reads false when the row is missing,
\* init_db stores "0", and only the dashboard turns it on.
C23_NoOrdersWhileDisabled ==
    /\ [](m_enabled_read = "false" => (pc = "idle" /\ log = <<>>))
    /\ [][m_enabled_read = "false" => log' = log]_vars
    /\ [](m_pc = "init" /\ ~m_started /\ trading_enabled = "missing"
            => ~is_trading_enabled(trading_enabled))
    /\ [][(~is_trading_enabled(trading_enabled)
            /\ is_trading_enabled(trading_enabled'))
              => SetTradingEnabled(TRUE)]_vars

\* The toggle was read as false in a cycle after init_db stored its default;
\* the snapshot was written and main sleeps.
C23_Witness ==
    /\ m_pc = "sleep"
    /\ m_enabled_read = "false"
    /\ trading_enabled = "0"
    /\ m_snapshots = 1

-----------------------------------------------------------------------------
(* Properties of the emergency hedge running beside the cycle worker *)

\* An emergency hedge has made its first fetch and has a fetch or a
\* submission ahead.
HedgeInProgress ==
    \/ h_pc = "fetch_events"
    \/ h_pc = "loop" /\ h_i <= Len(h_matched)

\* C28: while an emergency hedge is in progress, from its first fetch to its
\* last submission, the cycle worker submits no order.
C28_HedgeExcludesCycleSubmissions ==
    [][HedgeInProgress => Len(log') <= Len(log)]_vars

\* C29: over any interleaving of emergency hedges and Phase 1 cycles, at most
\* two closing orders (one full closing order and one extra) are placed
\* against one matched offer.
C29_ClosingOrdersBounded ==
    \A i \in DOMAIN closes : closes[i] <= 2

-----------------------------------------------------------------------------
(* Properties of the quotes of Phase 2 *)

\* The conditions of a quote on a runner, at the stake and the free funds of
\* the cycle: both sides priced, best back at least 1.2, best lay at most
\* 15.0, a spread of at least 0.02, and the lay liability of the stake within
\* the free funds.
QuotableAt(runner) ==
    LET bp == get_best_prices(runner)
    IN  /\ bp.best_back # NoPrice /\ bp.best_lay # NoPrice
        /\ bp.best_back >= 120
        /\ bp.best_lay <= 1500
        /\ bp.best_lay - bp.best_back >= 2
        /\ stake * (bp.best_lay - 100) <= free_funds * 100

\* C31: a Phase 2 cycle submits at most one quote; the quote is for the first
\* runner, in event, market, runner order, with best back >= 1.2, best lay
\* <= 15.0, spread >= 0.02 and lay liability of the stake within the free
\* funds, and it is one Back at best back and one Lay at best lay, both at
\* the Phase 2 stake of the balance, sent in one request.
C31_QuoteFirstQualifyingRunner ==
    /\ Len(QuoteSubs) <= 1
    /\ \A k \in DOMAIN QuoteSubs :
          LET q == QuoteSubs[k]
              so == ScanOrder(events)
          IN  \E j \in DOMAIN so :
                 /\ so[j].runner.id = q.runner_id
                 /\ QuotableAt(so[j].runner)
                 /\ \A i \in 1..(j - 1) : ~QuotableAt(so[i].runner)
                 /\ q.back_odds = get_best_prices(so[j].runner).best_back
                 /\ q.lay_odds = get_best_prices(so[j].runner).best_lay
                 /\ q.stake = get_stake(balance, 2)
                 /\ Len(q.status) = 2

-----------------------------------------------------------------------------
(* Properties of the account figures of a cycle *)

\* C32: the account figures a cycle uses for the phase, the stake and the
\* funds checks were fetched from the exchange during that cycle: when the
\* phase is determined and while the phase procedure runs, the account has
\* been refreshed since the top of the loop.
C32_AccountFetchedThisCycle ==
    (m_started /\ m_pc \in {"dispatch", "run"}) => m_refreshed

-----------------------------------------------------------------------------
(* Properties of the tick adjustment on the ladder *)

\* The ladder of prices, in hundredths: steps of 0.01 below 2.0, 0.02 from 2.0
\* to 3.0, 0.05 from 3.0 to 4.0, 0.1 from 4.0 to 6.0 and 0.2 from 6.0 up.
LadderStepAt(p) ==
    IF p < 200 THEN 1
    ELSE IF p < 300 THEN 2
    ELSE IF p < 400 THEN 5
    ELSE IF p < 600 THEN 10
    ELSE 20

LadderBandStart(p) ==
    IF p < 200 THEN 100
    ELSE IF p < 300 THEN 200
    ELSE IF p < 400 THEN 300
    ELSE IF p < 600 THEN 400
    ELSE 600

LadderValid(p) ==
    /\ p >= 101
    /\ (p - LadderBandStart(p)) % LadderStepAt(p) = 0

\* The price n increments of the ladder away from p: up on the back side,
\* down on the lay side, each increment with the step of the band it is in.
RECURSIVE LadderMove(_, _, _)
LadderMove(p, n, side) ==
    IF n = 0 THEN p
    ELSE IF side = "back" THEN LadderMove(p + LadderStepAt(p), n - 1, side)
    ELSE LadderMove(p - LadderStepAt(p - 1), n - 1, side)

\* C33: for ladder-valid odds of at least 1.01 (with that many prices of the
\* ladder below them, on the lay side) add_ticks_to_odds returns the price
\* exactly `ticks` increments of the ladder away, and the result is a price
\* of the ladder, also when the move crosses the limit of a band.
C33_TickAdjustFollowsLadder ==
    (/\ fn_out.fn = "add_ticks_to_odds"
     /\ LadderValid(fn_in.odds)
     /\ LadderMove(fn_in.odds, fn_in.ticks, fn_in.side) >= 101) =>
        /\ fn_out.value = LadderMove(fn_in.odds, fn_in.ticks, fn_in.side)
        /\ LadderValid(fn_out.value)

-----------------------------------------------------------------------------
(* Properties of the funds a cycle commits *)

\* The funds, in hundredths of a penny, the orders of a sequence of Phase 1
\* submissions need: the lay liability, stake * (odds - 1), of a greening
\* Lay and the stake of a Back.
RECURSIVE FundsNeeded(_)
FundsNeeded(subs) ==
    IF subs = <<>> THEN 0
    ELSE (IF Head(subs).kind = "green"
            THEN Head(subs).stake * (Head(subs).odds - 100)
          ELSE IF Head(subs).kind = "back" THEN Head(subs).stake * 100
          ELSE 0)
         + FundsNeeded(Tail(subs))

\* C34: within one Phase 1 cycle the lay liabilities of the greening Lays
\* submitted plus the stake of the new Back submitted never exceed the free
\* funds the cycle read at its start.
C34_CycleOrdersWithinFunds ==
    pc \in {"p1_green", "p1_open", "p1_scan", "p1_return"} =>
        FundsNeeded(log) <= free_funds * 100

\* C35: Phase 2 submits a quote only when the free funds cover the whole
\* quote: the stake of the Back plus the lay liability of the Lay,
\* stake * (best lay - 1), is within the free funds of the cycle.
C35_QuoteWithinFunds ==
    \A k \in DOMAIN QuoteSubs :
        QuoteSubs[k].stake * 100 + QuoteSubs[k].stake * (QuoteSubs[k].lay_odds - 100)
            <= free_funds * 100

-----------------------------------------------------------------------------
(* Properties of the retry budget and of the login cache *)

\* C36: over every sequence of responses of one client call, 401 responses
\* included, the request of the call is sent at most MAX_RETRIES (3) times in
\* total; the re-login grants no fresh budget.
C36_SendsWithinRetryBudget ==
    rq_sends <= MAX_RETRIES

\* C37: a login() that fails (credentials absent or rejected, a status other
\* than 200, or a 200 without a session token), called directly or by the
\* 401 branch of a request, leaves the cached session token and the cached
\* account exactly as they were before the call.
C37_FailedLoginKeepsCache ==
    [][(\/ rq_method' = "login" /\ rq_result' = "MatchbookAuthError"
        \/ rq_pc = "login" /\ rq_result' = "MatchbookAuthError")
          => (session_token' = session_token /\ account' = account)]_vars

-----------------------------------------------------------------------------
(* Properties of the emergency hedge on closed positions *)

\* Offer j is the order that closed offer i: a closing order was placed
\* against i, and j is on the runner of i, on the other side, with the stake
\* that equalises the profit at its odds.
ClosedBy(i, j) ==
    /\ i < j
    /\ closes[i] >= 1
    /\ offers[i].status = "matched" /\ offers[j].status = "matched"
    /\ offers[j].runner_id = offers[i].runner_id
    /\ offers[j].side # offers[i].side
    /\ offers[j].stake =
          Round2(greening_up_lay_stake(offers[i].stake, offers[i].odds, offers[j].odds))

\* C38: when a matched Back and the matched Lay that closed it are both among
\* the matched offers an invocation of the emergency hedge fetched, the
\* invocation submits no closing order for either of them.
C38_NoOrderForFlatPosition ==
    \A k \in DOMAIN h_log :
        \A i \in DOMAIN offers, j \in DOMAIN offers :
            (/\ \E x \in DOMAIN h_matched : h_matched[x] = i
             /\ \E y \in DOMAIN h_matched : h_matched[y] = j
             /\ offers[i].side = "back"
             /\ ClosedBy(i, j)) => h_log[k].ref \notin {i, j}

-----------------------------------------------------------------------------
(* Properties of the offers Phase 2 keeps on the account *)

\* C39: under Phase 2 cycles alone, the bot being the only client of an
\* account that starts without unsettled offers, the account never has more
\* than two open offers nor more than three open or matched offers at once.
C39_Phase2OffersBounded ==
    /\ Len(OfferIds({"open"})) <= 2
    /\ Len(OfferIds({"open", "matched"})) <= 3

-----------------------------------------------------------------------------
(* Properties of the progress of greening *)

\* The current cycle has submitted a greening Lay for offer i.
GreeningSent(i) ==
    \E k \in DOMAIN log : log[k].kind = "green" /\ log[k].ref = i

\* C40: a matched Back whose runner keeps a lay price on the exchange, with
\* the free funds covering the liability of its greening Lay, is eventually
\* sent a greening Lay by the Phase 1 cycles, whatever event filter the
\* operator has set and whichever other events are open.
C40_MatchedBackEventuallyGreened ==
    \A i \in 1..MaxOffers :
        (/\ i \in DOMAIN offers
         /\ offers[i].side = "back"
         /\ offers[i].status = "matched") ~> GreeningSent(i)

====
